---- MODULE Spec2Model ----
(***************************************************************************)
(* Gesture-to-sound pipeline of HandGesture_Music:                         *)
(*   MIDIGenerator  (src/midi_generator.py)  - the note/event sequencer    *)
(*   AudioEngine    (src/audio_engine.py)    - the synthesizer + consumer  *)
(*   MotionMusicApp (src/main.py)            - tracking loop, start/stop   *)
(*                                                                         *)
(* Threads are modelled with a program counter each.  A step of a thread   *)
(* is one statement group of the source that touches shared state; a       *)
(* critical section that contains no blocking call is one step.            *)
(***************************************************************************)
EXTENDS Integers, Sequences, FiniteSets, TLC

(***************************************************************************)
(* Bounds of the model                                                     *)
(***************************************************************************)
\* gesture frames handed to process_gestures in one run
MaxFrames == 2
\* tracking threads that can exist (start_tracking creates one per call)
MaxTrackers == 1
\* consumer threads that can exist (AudioEngine.start creates one per session)
MaxConsumers == 2
\* events handed to AudioEngine.play_note in one run, when it is driven directly
MaxEnqueued == 2
\* times the user saves the MIDI file
MaxSaves == 2
\* tracking threads that can exist when the sessions are followed without the
\* steps of the consumer threads
MaxProducers == 2
\* the latest reading of the clock that is followed, in milliseconds
MaxClock == 30

(***************************************************************************)
(* Program constants                                                       *)
(***************************************************************************)
default_velocity == 64
default_channel == 0
tempo == 500000
SustainControl == 64
ModulationControl == 1
VolumeControl == 7
MidiMax == 127
PitchWheelMax == 16383
PitchWheelCentre == 8192
\* mido's range of the 'pitch' field of a pitchwheel message
MidoMinPitchwheel == -8192
MidoMaxPitchwheel == 8191

Trackers == 1..MaxTrackers
Producers == 1..MaxProducers
\* holder of a threading.Lock that nobody holds
NoHolder == 0

VARIABLES
    \* ---- MIDIGenerator ----
    current_notes,   \* self.current_notes : set of pitches
    note_lock,       \* self.note_lock : NoHolder or the thread that holds it
    sustain_pedal,   \* self.sustain_pedal
    track,           \* self.track : the messages of the MIDI track
    emitted,         \* number of events created so far (gives each event its identity)
    frames_taken,    \* number of process_gestures calls started so far
    stream_on,       \* pitches whose latest emitted note event is a note_on
    dup_on,          \* pitches that got a note_on while their latest note event was a note_on
    clock,           \* time.time(), in milliseconds since the MIDIGenerator was made
    last_event_time, \* self.last_event_time, in the same unit
    last_delta,      \* the delta time, in ticks, of the message appended last
    \* ---- callers of process_gestures (tracking threads) ----
    trk,             \* per thread: pc, gestures, midi_events, i, entry_notes, entry_sustain
    \* ---- AudioEngine ----
    playing,         \* self.playing
    audio_thread,    \* self.audio_thread : NoThread or the consumer thread created last
    audio_queue,     \* self.audio_queue : the queued events, oldest first
    active_sounds,   \* self.active_sounds : pitch -> Sound
    volume,          \* self.volume, a rational
    mixer_init,      \* pygame.mixer is initialised
    sounding,        \* the Sounds the backend is playing
    con,             \* per consumer thread: pc, event (in hand), sound (made, not yet played)
    ctl_pc,          \* where the control (GUI) thread is inside start_tracking / stop
    stop_returned,   \* stop has returned and start was not called since
    enqueued,        \* number of events put on audio_queue so far
    last_handled,    \* seq of the event dispatched last by a consumer
    out_of_order,    \* a consumer dispatched an event older than one dispatched before
    last_raised,     \* seq of the last event whose processing raised (0: none)
    session_base,    \* number of events enqueued before the last start that began a session
    stop_all_raised, \* the last stop_all_notes call ended with an exception
    \* ---- MotionMusicApp / GUI ----
    running,         \* self.running
    camera,          \* self.camera is an open capture
    is_tracking,     \* MusicCreatorGUI.is_tracking
    \* ---- GestureRecognizer ----
    previous_positions, \* self.previous_positions : handedness -> last record seen
    hand_data,       \* the hand record analysed last
    rec_entry,       \* previous_positions and the time step at that analysis
    gestures,        \* the intent analyze_hand returned last
    \* ---- saving the MIDI file ----
    disk_file,       \* the file at midi_file_path: whether it exists, its messages
    save_failed,     \* the last midi_file.save raised
    save_report,     \* what the last _save_midi showed: "none", "success", "error"
    saves,           \* number of _save_midi calls
    \* ---- AudioEngine: the synthesis of a Sound ----
    envelope_call    \* a call of _calculate_envelope: its time t and what it returned;
                     \* empty where no Sound is being synthesized

seqVars == <<current_notes, note_lock, sustain_pedal, track, emitted, frames_taken,
            stream_on, dup_on, clock, last_event_time, last_delta>>
engVars == <<playing, audio_thread, audio_queue, active_sounds, volume, mixer_init,
            sounding, con, ctl_pc, stop_returned, enqueued, last_handled, out_of_order, last_raised, session_base, stop_all_raised>>
recVars == <<previous_positions, hand_data, rec_entry, gestures>>
saveVars == <<disk_file, save_failed, save_report, saves>>
appVars == <<running, camera, is_tracking, recVars, saveVars, envelope_call>>
vars == <<seqVars, trk, engVars, appVars>>

Consumers == 1..MaxConsumers
NoThread == 0

(***************************************************************************)
(* Numbers.  A control value is a rational num/den (den > 0); int() of     *)
(* Python truncates toward zero.                                           *)
(***************************************************************************)
Q(n, d) == [num |-> n, den |-> d]

Max(a, b) == IF a >= b THEN a ELSE b
Min(a, b) == IF a <= b THEN a ELSE b
Abs(a) == IF a >= 0 THEN a ELSE -a

\* int(n/d), d > 0
IntTrunc(n, d) == IF n >= 0 THEN n \div d ELSE -((-n) \div d)

\* max(lo, min(hi, x))
Clamp(lo, hi, x) == Max(lo, Min(hi, x))

(***************************************************************************)
(* MIDI events (the dictionaries built by MIDIGenerator).  seq is the      *)
(* ordinal of the event's creation and stands for the object's identity.   *)
(***************************************************************************)
NoteOnEvent(n, v, s) ==
    [type |-> "note_on", note |-> n, velocity |-> v, channel |-> default_channel, seq |-> s]

NoteOffEvent(n, s) ==
    [type |-> "note_off", note |-> n, velocity |-> 0, channel |-> default_channel, seq |-> s]

ControlChangeEvent(c, v, s) ==
    [type |-> "control_change", control |-> c, value |-> v, channel |-> default_channel, seq |-> s]

PitchWheelEvent(p, s) ==
    [type |-> "pitchwheel", pitch |-> p, channel |-> default_channel, seq |-> s]

\* _create_sustain_event
CreateSustainEventAlwaysOff(sustain_on, s) == ControlChangeEvent(SustainControl, 0, s)

CreateSustainEventAlwaysOn(sustain_on, s) == ControlChangeEvent(SustainControl, MidiMax, s)

CreateSustainEvent(sustain_on, s) ==
    ControlChangeEvent(SustainControl, IF sustain_on THEN MidiMax ELSE 0, s)

(***************************************************************************)
(* threading.Lock: acquire succeeds only when nobody holds the lock; the   *)
(* lock is not reentrant, so the holder itself cannot acquire it again.    *)
(***************************************************************************)
LockAcquirable(holder, t) == holder = NoHolder

(***************************************************************************)
(* Gesture intents given to process_gestures                               *)
(***************************************************************************)
GestureActions ==
    {"stop_all_notes", "sustain_notes", "single_note", "chord_mode", "multi_note"}

NoControls == [k \in {} |-> Q(0, 1)]

NoteLists ==
    { <<>>,
      << [note_number |-> 60, velocity |-> 64] >>,
      << [note_number |-> 60], [note_number |-> 64, velocity |-> 0] >>,
      << [note_number |-> 200, velocity |-> 300], [note_number |-> 127, velocity |-> 64] >>,
      << [velocity |-> 64], [note_number |-> -5, velocity |-> -3] >> }

ControlSets ==
    { [volume |-> Q(1, 2)],
      [pitch_bend |-> Q(3, 2), modulation |-> Q(-2, 1), volume |-> Q(-1, 4)],
      [pitch_bend |-> Q(-1, 3), modulation |-> Q(1, 3), volume |-> Q(3, 1)],
      [pitch_bend |-> Q(1, 1)], [pitch_bend |-> Q(-1, 1)], [pitch_bend |-> Q(5, 7)] }

Frames ==
    { [action |-> a, notes |-> n, controls |-> NoControls] :
          a \in GestureActions, n \in NoteLists }
    \cup
    { [action |-> a, notes |-> <<>>, controls |-> c] :
          a \in GestureActions, c \in ControlSets }
    \cup
    { [action |-> "multi_note",
       notes |-> << [note_number |-> 200, velocity |-> 300],
                    [note_number |-> 127, velocity |-> 64] >>,
       controls |-> [pitch_bend |-> Q(3, 2), modulation |-> Q(-2, 1), volume |-> Q(-1, 4)]] }

\* the frame slot of a thread that is not inside process_gestures
NoFrame == [action |-> "none", notes |-> <<>>, controls |-> NoControls]

IdleThread(p) ==
    [pc |-> p, gestures |-> NoFrame, midi_events |-> <<>>, i |-> 0,
     entry_notes |-> {}, entry_sustain |-> FALSE]

(***************************************************************************)
(* MIDIGenerator: pure parts                                               *)
(***************************************************************************)
\* the orders in which list(self.current_notes) can enumerate a set
Orders(S) ==
    { o \in [1..Cardinality(S) -> S] : \A a, b \in 1..Cardinality(S) : a # b => o[a] # o[b] }

\* _create_note_event, lines 95-103: the clamped pitch and velocity of a trigger
HasNoteNumber(note_data) == "note_number" \in DOMAIN note_data

ClampNote(n) == Clamp(0, MidiMax, n)

ClampVelocityFromZero(v) == Clamp(0, MidiMax, v)

ClampVelocity(v) == Clamp(1, MidiMax, v)

NoteNumberOf(note_data) == ClampNote(note_data.note_number)

VelocityOf(note_data) ==
    ClampVelocity(IF "velocity" \in DOMAIN note_data THEN note_data.velocity
                  ELSE default_velocity)

\* _create_note_event, lines 105-112: does the trigger pass the de-duplication
NoteAlreadyPlaying(n, notes) == n \in notes

\* _process_controls: the value computations
\* the pitch bend scaled without the centre offset
PitchBendValueNoCentre(c) ==
    Clamp(0, PitchWheelMax, IntTrunc(c.num * PitchWheelCentre, c.den))

PitchBendValue(c) ==
    Clamp(0, PitchWheelMax,
          IntTrunc(c.num * PitchWheelCentre + PitchWheelCentre * c.den, c.den))

ModulationValue(c) == Clamp(0, MidiMax, IntTrunc(Abs(c.num) * MidiMax, c.den))

VolumeValue(c) == Clamp(0, MidiMax, IntTrunc(c.num * MidiMax, c.den))

\* _process_controls: the events, in the order pitch bend, modulation, volume;
\* s is the number of events created before
ProcessControls(controls, s) ==
    LET pb == IF "pitch_bend" \in DOMAIN controls
              THEN << PitchWheelEvent(PitchBendValue(controls.pitch_bend), s + 1) >>
              ELSE << >>
        md == IF "modulation" \in DOMAIN controls
              THEN << ControlChangeEvent(ModulationControl,
                                         ModulationValue(controls.modulation),
                                         s + Len(pb) + 1) >>
              ELSE << >>
        vl == IF "volume" \in DOMAIN controls
              THEN << ControlChangeEvent(VolumeControl, VolumeValue(controls.volume),
                                         s + Len(pb) + Len(md) + 1) >>
              ELSE << >>
    IN pb \o md \o vl

\* _stop_all_notes entered by thread t, which now holds note_lock; order is the
\* enumeration of list(self.current_notes).  Each _stop_note acquires note_lock
\* again (line 128) while t holds it.
StopAllNotes(t, order, s) ==
    IF Len(order) = 0
    THEN [blocked |-> FALSE, events |-> << >>]
    ELSE IF LockAcquirable(t, t)
         THEN [blocked |-> FALSE,
               events |-> [k \in 1..Len(order) |-> NoteOffEvent(order[k], s + k)]]
         ELSE [blocked |-> TRUE, events |-> << >>]

\* a mido that takes the pitch of a pitchwheel message as 0..16383
MidoAcceptsUnsigned(e) ==
    CASE e.type = "note_on" ->
            e.note \in 0..MidiMax /\ e.velocity \in 0..MidiMax
      [] e.type = "note_off" ->
            e.note \in 0..MidiMax /\ e.velocity \in 0..MidiMax
      [] e.type = "control_change" ->
            e.control \in 0..MidiMax /\ e.value \in 0..MidiMax
      [] e.type = "pitchwheel" ->
            e.pitch \in 0..PitchWheelMax
      [] OTHER -> FALSE

\* mido.Message(...) of _add_to_midi_file: the data bytes mido accepts
MidoAccepts(e) ==
    CASE e.type = "note_on" ->
            e.note \in 0..MidiMax /\ e.velocity \in 0..MidiMax
      [] e.type = "note_off" ->
            e.note \in 0..MidiMax /\ e.velocity \in 0..MidiMax
      [] e.type = "control_change" ->
            e.control \in 0..MidiMax /\ e.value \in 0..MidiMax
      [] e.type = "pitchwheel" ->
            e.pitch \in MidoMinPitchwheel..MidoMaxPitchwheel
      [] OTHER -> FALSE

\* the message appended for an event (the event's fields that mido.Message gets)
ToMessage(e) == [k \in (DOMAIN e) \ {"seq"} |-> e[k]]

\* _add_initial_setup
InitialTrack ==
    << [type |-> "set_tempo", tempo |-> tempo],
       [type |-> "program_change", channel |-> default_channel, program |-> 0] >>

(***************************************************************************)
(* The emitted stream, per pitch (history of the note events created)      *)
(***************************************************************************)
OnPitches(events) ==
    { events[k].note : k \in { j \in 1..Len(events) : events[j].type = "note_on" } }

OffPitches(events) ==
    { events[k].note : k \in { j \in 1..Len(events) : events[j].type = "note_off" } }

\* the step creates the events new (note_offs first: only _stop_all_notes makes them)
RecordStream(new) ==
    /\ stream_on' = (stream_on \ OffPitches(new)) \cup OnPitches(new)
    /\ dup_on' = dup_on \cup (OnPitches(new) \cap (stream_on \ OffPitches(new)))

(***************************************************************************)
(* MIDIGenerator.process_gestures, run by thread t                         *)
(***************************************************************************)
\* where control goes after the action stage and after the control stage
AfterAction(g) == IF Len(g.notes) > 0 THEN "notes" ELSE "controls"

AfterControls(events) == IF Len(events) > 0 THEN "log" ELSE "returned"

\* process_gestures is entered with gestures g (lines 61-62)
EnterProcessGestures(t, g) ==
    /\ frames_taken < MaxFrames
    /\ frames_taken' = frames_taken + 1
    /\ trk' = [trk EXCEPT ![t] =
                  [pc |-> "action", gestures |-> g, midi_events |-> << >>, i |-> 1,
                   entry_notes |-> current_notes, entry_sustain |-> sustain_pedal]]
    /\ UNCHANGED <<current_notes, note_lock, sustain_pedal, track, clock, last_event_time, last_delta, emitted,
                   stream_on, dup_on>>
    /\ UNCHANGED <<engVars, appVars>>

\* lines 64-73: the gesture action
ActionStage(t) ==
    /\ trk[t].pc = "action"
    /\ LET g == trk[t].gestures IN
       IF g.action = "stop_all_notes"
       THEN /\ LockAcquirable(note_lock, t)
            /\ \E order \in Orders(current_notes) :
                 LET r == StopAllNotes(t, order, emitted) IN
                 IF r.blocked
                 THEN /\ note_lock' = t
                      /\ trk' = [trk EXCEPT ![t].pc = "blocked"]
                      /\ UNCHANGED <<current_notes, emitted, stream_on, dup_on>>
                 ELSE /\ current_notes' = {}
                      /\ emitted' = emitted + Len(r.events)
                      /\ RecordStream(r.events)
                      /\ trk' = [trk EXCEPT ![t].pc = AfterAction(g),
                                            ![t].midi_events = r.events]
                      /\ UNCHANGED note_lock
            /\ UNCHANGED sustain_pedal
       ELSE /\ sustain_pedal' = (g.action = "sustain_notes")
            /\ emitted' = emitted + 1
            /\ trk' = [trk EXCEPT
                         ![t].pc = AfterAction(g),
                         ![t].midi_events =
                            << CreateSustainEvent(g.action = "sustain_notes", emitted + 1) >>]
            /\ UNCHANGED <<current_notes, note_lock, stream_on, dup_on>>
    /\ UNCHANGED <<track, clock, last_event_time, last_delta, frames_taken>>
    /\ UNCHANGED <<engVars, appVars>>

\* lines 76-80: one iteration of the loop over gestures['notes']
NoteStage(t) ==
    /\ trk[t].pc = "notes"
    /\ LET g == trk[t].gestures
           note_data == g.notes[trk[t].i]
           last == trk[t].i = Len(g.notes)
           step == [trk EXCEPT ![t].pc = IF last THEN "controls" ELSE "notes",
                               ![t].i = IF last THEN 1 ELSE trk[t].i + 1]
       IN
       IF ~HasNoteNumber(note_data)
       THEN /\ trk' = step
            /\ UNCHANGED <<current_notes, emitted, stream_on, dup_on>>
       ELSE /\ LockAcquirable(note_lock, t)
            /\ IF NoteAlreadyPlaying(NoteNumberOf(note_data), current_notes)
               THEN /\ trk' = step
                    /\ UNCHANGED <<current_notes, emitted, stream_on, dup_on>>
               ELSE /\ current_notes' = current_notes \cup {NoteNumberOf(note_data)}
                    /\ emitted' = emitted + 1
                    /\ RecordStream(<< NoteOnEvent(NoteNumberOf(note_data),
                                                   VelocityOf(note_data), emitted + 1) >>)
                    /\ trk' = [step EXCEPT ![t].midi_events =
                                  Append(trk[t].midi_events,
                                         NoteOnEvent(NoteNumberOf(note_data),
                                                     VelocityOf(note_data), emitted + 1))]
    /\ UNCHANGED <<note_lock, sustain_pedal, track, clock, last_event_time, last_delta, frames_taken>>
    /\ UNCHANGED <<engVars, appVars>>

\* lines 83-85: the continuous controls
ControlStage(t) ==
    /\ trk[t].pc = "controls"
    /\ LET evs == ProcessControls(trk[t].gestures.controls, emitted)
           all == trk[t].midi_events \o evs
       IN /\ emitted' = emitted + Len(evs)
          /\ trk' = [trk EXCEPT ![t].midi_events = all,
                                ![t].pc = AfterControls(all),
                                ![t].i = 1]
    /\ UNCHANGED <<current_notes, note_lock, sustain_pedal, track, clock, last_event_time, last_delta, frames_taken,
                   stream_on, dup_on>>
    /\ UNCHANGED <<engVars, appVars>>

\* _add_to_midi_file, lines 207-208: the delta time in ticks between two times
\* in milliseconds: int((current_time - self.last_event_time) * 480), then max(0, .)
\* the delta time without its floor
DeltaTimeSigned(current_time, last) == IntTrunc((current_time - last) * 480, 1000)

DeltaTime(current_time, last) ==
    Max(0, IntTrunc((current_time - last) * 480, 1000))

\* lines 88-89 with _add_to_midi_file: one iteration of the loop over midi_events
LogStage(t) ==
    /\ trk[t].pc = "log"
    /\ LET e == trk[t].midi_events[trk[t].i]
           last == trk[t].i = Len(trk[t].midi_events)
           current_time == clock
           delta_time == DeltaTime(current_time, last_event_time)
       IN /\ IF MidoAccepts(e)
             THEN /\ track' = Append(track, ToMessage(e))
                  /\ last_event_time' = current_time
                  /\ last_delta' = delta_time
             ELSE UNCHANGED <<track, last_event_time, last_delta>>
          /\ trk' = [trk EXCEPT ![t].pc = IF last THEN "returned" ELSE "log",
                                ![t].i = IF last THEN 1 ELSE trk[t].i + 1]
    /\ UNCHANGED <<current_notes, note_lock, sustain_pedal, emitted, frames_taken,
                   stream_on, dup_on, clock>>
    /\ UNCHANGED <<engVars, appVars>>


(***************************************************************************)
(* The sequencer on its own: one caller hands frames to process_gestures   *)
(* and takes the returned list.                                            *)
(***************************************************************************)
Caller == 1

Call(t) ==
    /\ trk[t].pc = "idle"
    /\ \E g \in Frames : EnterProcessGestures(t, g)

\* line 91: process_gestures returns midi_events to the caller
Return(t) ==
    /\ trk[t].pc = "returned"
    /\ trk' = [trk EXCEPT ![t] = IdleThread("idle")]
    /\ UNCHANGED seqVars
    /\ UNCHANGED <<engVars, appVars>>

(***************************************************************************)
(* AudioEngine: Sound objects and the backend                              *)
(***************************************************************************)
NoEvent == [type |-> "none", seq |-> 0]

NoSound == [note |-> -1, gen |-> 0, velocity |-> 0, volume |-> Q(0, 1)]

IdleConsumer(p) == [pc |-> p, event |-> NoEvent, sound |-> NoSound]

\* the Sound objects that exist: registered, playing, or made and not yet played
SoundsInUse ==
    { active_sounds[n] : n \in DOMAIN active_sounds }
    \cup sounding
    \cup { con[c].sound : c \in { d \in Consumers : con[d].pc = "play" } }

\* a Sound made at full master volume, whatever self.volume is
GenerateNoteSoundFullVolume(note, velocity, vol) ==
    LET used == { x.gen : x \in { y \in SoundsInUse : y.note = note } }
    IN [note |-> note,
        gen |-> CHOOSE g \in 0..Cardinality(used) : g \notin used,
        velocity |-> velocity,
        volume |-> Q(1, 1)]

\* _generate_note_sound: a new Sound object for the pitch; gain = velocity/127 * volume
GenerateNoteSound(note, velocity, vol) ==
    LET used == { x.gen : x \in { y \in SoundsInUse : y.note = note } }
    IN [note |-> note,
        gen |-> CHOOSE g \in 0..Cardinality(used) : g \notin used,
        velocity |-> velocity,
        volume |-> vol]

\* a _play_note that only asks for the pitch to be present
ValidNotePresent(event) == "note" \in DOMAIN event

\* _play_note, line 117: the pitch is present and in note_frequencies (0..127)
ValidNote(event) == "note" \in DOMAIN event /\ event.note \in 0..MidiMax

\* _play_note, line 115
EventVelocity(event) ==
    IF "velocity" \in DOMAIN event THEN event.velocity ELSE default_velocity

\* Sound.stop() raises pygame.error once pygame.mixer.quit() has run
SoundStopRaises == ~mixer_init

\* _play_note, lines 130-131: the voices playing after the previous instance of
\* the pitch was stopped
StopPreviousSkipped(note, sounds, voices) == voices

StopPrevious(note, sounds, voices) ==
    IF note \in DOMAIN sounds THEN voices \ {sounds[note]} ELSE voices

\* Sound.play(): the backend plays the Sound when the mixer is initialised
SoundPlay(sound, voices) == IF mixer_init THEN voices \cup {sound} ELSE voices

\* del self.active_sounds[note]
Without(sounds, note) == [n \in (DOMAIN sounds) \ {note} |-> sounds[n]]

\* _handle_pitch_bend, line 233: (pitch_value - 8192) / 8192.0, the bend as a
\* fraction of the full range, before it is scaled to semitones
PitchBendFraction(pitch) == Q(pitch - PitchWheelCentre, PitchWheelCentre)

\* _audio_loop, lines 91-92: where the consumer goes after an event raised
AfterErrorUncaught == "none"

AfterError == "check"

\* set_volume, line 240: max(0.0, min(1.0, volume))
\* the volume stored as given
ClampVolumeUnclamped(v) == v

ClampVolume(v) ==
    IF v.num < 0 THEN Q(0, 1) ELSE IF v.num > v.den THEN Q(1, 1) ELSE v

(***************************************************************************)
(* AudioEngine: the envelope of a synthesized note                         *)
(***************************************************************************)
\* __init__, line 27: self.note_duration = 0.5, the duration every Sound is made with
note_duration == Q(1, 2)

\* The times _calculate_envelope is called with: every 5 ms from 0 to
\* note_duration, and attack_time + decay_time. A time in seconds is the float
\* nearest to num/den, or, with ulp = 1, the float above it: attack_time +
\* decay_time, added in floats, is 0.30000000000000004, the float above 0.3.
EnvelopeTimes ==
    { [num |-> k, den |-> 200, ulp |-> 0] : k \in 0..100 }
    \cup { [num |-> 3, den |-> 10, ulp |-> 1] }

\* _calculate_envelope. The results are exact rationals in lowest terms; the
\* comparison with attack_time + decay_time is the comparison of the floats.
CalculateEnvelope(t, duration) ==
    LET RECURSIVE Gcd(_, _)
        Gcd(a, b) == IF b = 0 THEN a ELSE Gcd(b, a % b)
        Low(x) == LET g == Gcd(Abs(x.num), x.den) IN Q(x.num \div g, x.den \div g)
        Sub(a, b) == Low(Q(a.num * b.den - b.num * a.den, a.den * b.den))
        Div(a, b) == Low(Q(a.num * b.den, a.den * b.num))
        Mul(a, b) == Low(Q(a.num * b.num, a.den * b.den))
        Less(a, b) == a.num * b.den < b.num * a.den
        attack_time == Q(1, 10)
        decay_time == Q(1, 5)
        sustain_level == Q(7, 10)
        release_time == Q(3, 10)
        one == Q(1, 1)
        before_decay_end ==
            \/ Less(t, Q(3, 10))
            \/ ~Less(Q(3, 10), t) /\ t.ulp < 1
    IN IF Less(t, attack_time)
       THEN [phase |-> "attack", value |-> Div(t, attack_time)]
       ELSE IF before_decay_end
       THEN [phase |-> "decay",
             value |-> Sub(one, Mul(Sub(one, sustain_level),
                                    Div(Sub(t, attack_time), decay_time)))]
       ELSE IF Less(t, Sub(duration, release_time))
       THEN [phase |-> "sustain", value |-> sustain_level]
       ELSE [phase |-> "release",
             value |-> Mul(sustain_level,
                           Sub(one, Div(Sub(t, Sub(duration, release_time)),
                                        release_time)))]

\* _generate_note_sound, line 175: envelope = self._calculate_envelope(t, duration)
EnvelopeCall ==
    /\ ~envelope_call.returned
    /\ envelope_call' =
          [envelope_call EXCEPT !.returned = TRUE,
              !.phase = CalculateEnvelope(envelope_call.t, note_duration).phase,
              !.value = CalculateEnvelope(envelope_call.t, note_duration).value]
    /\ UNCHANGED <<seqVars, trk, engVars, running, camera, is_tracking, recVars, saveVars>>

(***************************************************************************)
(* AudioEngine: the consumer thread c (_audio_loop)                        *)
(***************************************************************************)
\* line 84: while self.playing
ConsumerCheck(c) ==
    /\ con[c].pc = "check"
    /\ con' = [con EXCEPT ![c] = IdleConsumer(IF playing THEN "get" ELSE "none")]
    /\ UNCHANGED <<playing, audio_thread, audio_queue, active_sounds, volume, mixer_init,
                   sounding, ctl_pc, stop_returned, enqueued, last_handled, out_of_order, last_raised, session_base, stop_all_raised>>
    /\ UNCHANGED <<seqVars, trk, appVars>>

\* line 87: self.audio_queue.get(timeout=0.1); Empty sends the loop round again
ConsumerGet(c) ==
    /\ con[c].pc = "get"
    /\ IF Len(audio_queue) > 0
       THEN /\ con' = [con EXCEPT ![c].pc = "process", ![c].event = Head(audio_queue)]
            /\ audio_queue' = Tail(audio_queue)
       ELSE /\ con' = [con EXCEPT ![c].pc = "check"]
            /\ UNCHANGED audio_queue
    /\ UNCHANGED <<playing, audio_thread, active_sounds, volume, mixer_init,
                   sounding, ctl_pc, stop_returned, enqueued, last_handled, out_of_order, last_raised, session_base, stop_all_raised>>
    /\ UNCHANGED <<seqVars, trk, appVars>>

\* the processing of event e raises before _play_note asks for sound_lock:
\* make_sound without a mixer (line 126/186), or Sound.stop() in _stop_note
ProcessRaises(e) ==
    \/ e.type = "note_on" /\ ValidNote(e) /\ ~mixer_init
    \/ /\ e.type = "note_off"
       /\ "note" \in DOMAIN e
       /\ e.note \in DOMAIN active_sounds
       /\ SoundStopRaises

\* _process_audio_event (line 88) up to the point where _play_note asks for
\* sound_lock; _stop_note and the control handlers are done in this step
ConsumerProcess(c) ==
    /\ con[c].pc = "process"
    /\ LET e == con[c].event
           done == [con EXCEPT ![c] = IdleConsumer("check")]
       IN
       /\ last_handled' = Max(last_handled, e.seq)
       /\ out_of_order' = (out_of_order \/ e.seq < last_handled)
       /\ IF ProcessRaises(e)
          THEN /\ con' = [con EXCEPT ![c] = IdleConsumer(AfterError)]
               /\ last_raised' = e.seq
               /\ UNCHANGED <<active_sounds, sounding, volume>>
          ELSE /\ UNCHANGED last_raised
               /\ CASE e.type = "note_on" ->
                         /\ con' = IF ValidNote(e)
                                   THEN [con EXCEPT ![c].pc = "play",
                                           ![c].sound = GenerateNoteSound(
                                                           e.note, EventVelocity(e), volume)]
                                   ELSE done
                         /\ UNCHANGED <<active_sounds, sounding, volume>>
                    [] e.type = "note_off" ->
                         /\ con' = done
                         /\ IF "note" \in DOMAIN e /\ e.note \in DOMAIN active_sounds
                            THEN /\ sounding' = sounding \ {active_sounds[e.note]}
                                 /\ active_sounds' = Without(active_sounds, e.note)
                            ELSE UNCHANGED <<active_sounds, sounding>>
                         /\ UNCHANGED volume
                    [] e.type = "control_change" ->
                         /\ con' = done
                         /\ volume' = IF e.control = VolumeControl
                                      THEN Q(e.value, MidiMax) ELSE volume
                         /\ UNCHANGED <<active_sounds, sounding>>
                    [] OTHER ->
                         /\ con' = done
                         /\ UNCHANGED <<active_sounds, sounding, volume>>
    /\ UNCHANGED <<playing, audio_thread, audio_queue, mixer_init, ctl_pc, stop_returned,
                   enqueued, session_base, stop_all_raised>>
    /\ UNCHANGED <<seqVars, trk, appVars>>

\* _play_note, lines 128-135: the critical section under sound_lock
ConsumerPlay(c) ==
    /\ con[c].pc = "play"
    /\ LET snd == con[c].sound IN
       IF snd.note \in DOMAIN active_sounds /\ SoundStopRaises
       THEN /\ con' = [con EXCEPT ![c] = IdleConsumer(AfterError)]
            /\ last_raised' = con[c].event.seq
            /\ UNCHANGED <<active_sounds, sounding>>
       ELSE /\ con' = [con EXCEPT ![c] = IdleConsumer("check")]
            /\ active_sounds' = (snd.note :> snd) @@ active_sounds
            /\ sounding' = SoundPlay(snd, StopPrevious(snd.note, active_sounds, sounding))
            /\ UNCHANGED last_raised
    /\ UNCHANGED <<playing, audio_thread, audio_queue, volume, mixer_init, ctl_pc,
                   stop_returned, enqueued, last_handled, out_of_order, session_base, stop_all_raised>>
    /\ UNCHANGED <<seqVars, trk, appVars>>

ConsumerStep(c) ==
    \/ ConsumerCheck(c)
    \/ ConsumerGet(c)
    \/ ConsumerProcess(c)
    \/ ConsumerPlay(c)

\* the backend finishes playing a Sound (its buffer is note_duration long)
VoiceEnds ==
    /\ \E snd \in sounding : sounding' = sounding \ {snd}
    /\ UNCHANGED <<playing, audio_thread, audio_queue, active_sounds, volume, mixer_init,
                   con, ctl_pc, stop_returned, enqueued, last_handled, out_of_order, last_raised, session_base, stop_all_raised>>
    /\ UNCHANGED <<seqVars, trk, appVars>>

(***************************************************************************)
(* AudioEngine: the operations called from other threads                   *)
(***************************************************************************)
\* play_note: queue the event when the engine is running
PlayNote(event) ==
    /\ audio_queue' = IF playing THEN Append(audio_queue, event) ELSE audio_queue
    /\ enqueued' = IF playing THEN enqueued + 1 ELSE enqueued

\* start
EngineStart ==
    /\ IF ~playing
       THEN /\ \E c \in Consumers :
                 /\ con[c].pc = "none"
                 /\ \A d \in Consumers : d < c => con[d].pc # "none"
                 /\ con' = [con EXCEPT ![c] = IdleConsumer("check")]
                 /\ audio_thread' = c
            /\ playing' = TRUE
            /\ session_base' = enqueued
       ELSE UNCHANGED <<playing, con, audio_thread, session_base>>
    /\ stop_returned' = FALSE
    /\ UNCHANGED <<audio_queue, active_sounds, volume, mixer_init, sounding,
                   enqueued, last_handled, out_of_order, last_raised, stop_all_raised>>

\* stop, lines 69-70: clear the flag
EngineStopBegin ==
    /\ ctl_pc = "idle"
    /\ playing' = FALSE
    /\ ctl_pc' = IF audio_thread # NoThread THEN "join" ELSE "clear"
    /\ UNCHANGED <<audio_thread, audio_queue, active_sounds, volume, mixer_init, sounding,
                   con, stop_returned, enqueued, last_handled, out_of_order, last_raised, session_base, stop_all_raised>>

\* stop, line 71: join(timeout=1.0) returns when the thread has ended or when the
\* timeout expires, whichever comes first
EngineStopJoin ==
    /\ ctl_pc = "join"
    /\ ctl_pc' = "clear"
    /\ UNCHANGED <<playing, audio_thread, audio_queue, active_sounds, volume, mixer_init,
                   sounding, con, stop_returned, enqueued, last_handled, out_of_order, last_raised, session_base, stop_all_raised>>

\* stop, lines 74-77: stop and forget every active sound; Sound.stop() raising
\* ends stop() with the exception
EngineStopClear ==
    /\ ctl_pc = "clear"
    /\ IF DOMAIN active_sounds # {} /\ SoundStopRaises
       THEN /\ ctl_pc' = "idle"
            /\ UNCHANGED <<active_sounds, sounding>>
       ELSE /\ ctl_pc' = "quit"
            /\ active_sounds' = << >>
            /\ sounding' = sounding \ { active_sounds[n] : n \in DOMAIN active_sounds }
    /\ UNCHANGED <<playing, audio_thread, audio_queue, volume, mixer_init, con,
                   stop_returned, enqueued, last_handled, out_of_order, last_raised, session_base, stop_all_raised>>

\* stop, lines 79-80: pygame.mixer.quit() silences the backend; stop returns
EngineStopQuit ==
    /\ ctl_pc = "quit"
    /\ mixer_init' = FALSE
    /\ sounding' = {}
    /\ ctl_pc' = "idle"
    /\ stop_returned' = TRUE
    /\ UNCHANGED <<playing, audio_thread, audio_queue, active_sounds, volume, con,
                   enqueued, last_handled, out_of_order, last_raised, session_base, stop_all_raised>>

\* set_volume
SetVolume(v) ==
    /\ volume' = ClampVolume(v)
    /\ UNCHANGED <<playing, audio_thread, audio_queue, active_sounds, mixer_init, sounding,
                   con, ctl_pc, stop_returned, enqueued, last_handled, out_of_order, last_raised, session_base, stop_all_raised>>

\* stop_all_notes
StopAllSounds ==
    /\ IF DOMAIN active_sounds # {} /\ SoundStopRaises
       THEN /\ stop_all_raised' = TRUE
            /\ UNCHANGED <<active_sounds, sounding>>
       ELSE /\ stop_all_raised' = FALSE
            /\ active_sounds' = << >>
            /\ sounding' = sounding \ { active_sounds[n] : n \in DOMAIN active_sounds }
    /\ UNCHANGED <<playing, audio_thread, audio_queue, volume, mixer_init, con, ctl_pc,
                   stop_returned, enqueued, last_handled, out_of_order, last_raised, session_base>>

(***************************************************************************)
(* The engine on its own: a control thread calls start, stop, set_volume   *)
(* and stop_all_notes one after the other, a producer calls play_note.     *)
(***************************************************************************)
\* the volume controls whose events reach the engine: below, inside and above 0..1
VolumeControls == { Q(-1, 4), Q(1, 2), Q(3, 1) }

EngineEvents(s) ==
    { NoteOnEvent(60, 64, s),
      NoteOnEvent(64, 100, s),
      NoteOffEvent(60, s),
      [type |-> "sysex", seq |-> s] }
    \cup
    { ControlChangeEvent(VolumeControl, VolumeValue(v), s) : v \in VolumeControls }

VolumeInputs == { Q(-1, 2), Q(1, 4), Q(3, 2) }

CallStart ==
    /\ ctl_pc = "idle"
    /\ EngineStart
    /\ UNCHANGED ctl_pc
    /\ UNCHANGED <<seqVars, trk, appVars>>

CallStop ==
    /\ \/ EngineStopBegin
       \/ EngineStopJoin
       \/ EngineStopClear
       \/ EngineStopQuit
    /\ UNCHANGED <<seqVars, trk, appVars>>

CallSetVolume ==
    /\ ctl_pc = "idle"
    /\ \E v \in VolumeInputs : SetVolume(v)
    /\ UNCHANGED <<seqVars, trk, appVars>>

CallStopAllNotes ==
    /\ ctl_pc = "idle"
    /\ StopAllSounds
    /\ UNCHANGED <<seqVars, trk, appVars>>

CallPlayNote ==
    /\ enqueued < MaxEnqueued
    /\ \E e \in EngineEvents(enqueued + 1) : PlayNote(e)
    /\ UNCHANGED <<playing, audio_thread, active_sounds, volume, mixer_init, sounding, con,
                   ctl_pc, stop_returned, last_handled, out_of_order, last_raised, session_base, stop_all_raised>>
    /\ UNCHANGED <<seqVars, trk, appVars>>

\* play_note with the events that make no sound: a NoteOn of pitch 128, a NoteOn
\* without a pitch, a pitch wheel event, a modulation and a sustain ControlChange
CallPlayOther ==
    /\ enqueued < MaxEnqueued
    /\ \E e \in { NoteOnEvent(128, 64, enqueued + 1),
                   [type |-> "note_on", velocity |-> 64, channel |-> default_channel,
                    seq |-> enqueued + 1],
                   PitchWheelEvent(12288, enqueued + 1),
                   ControlChangeEvent(ModulationControl, 42, enqueued + 1),
                   ControlChangeEvent(SustainControl, 127, enqueued + 1) } : PlayNote(e)
    /\ UNCHANGED <<playing, audio_thread, active_sounds, volume, mixer_init, sounding, con,
                   ctl_pc, stop_returned, last_handled, out_of_order, last_raised, session_base, stop_all_raised>>
    /\ UNCHANGED <<seqVars, trk, appVars>>

(***************************************************************************)
(* MotionMusicApp: the tracking threads and the GUI's start / stop         *)
(***************************************************************************)
\* the intents the classifier hands over in a tracking session
TrackedFrames ==
    { [action |-> "single_note",
       notes |-> << [note_number |-> 60, velocity |-> 64] >>, controls |-> NoControls],
      [action |-> "sustain_notes",
       notes |-> << [note_number |-> 60], [note_number |-> 64, velocity |-> 0] >>,
       controls |-> NoControls],
      [action |-> "stop_all_notes", notes |-> << >>, controls |-> NoControls],
      [action |-> "multi_note", notes |-> << >>, controls |-> [volume |-> Q(1, 2)]] }

\* _tracking_loop, lines 82-100: the loop test, then a hand is seen and its
\* intent goes to process_gestures; the thread ends when the test fails
TrackerLoop(t) ==
    /\ trk[t].pc = "loop"
    /\ IF running /\ camera
       THEN \E g \in TrackedFrames : EnterProcessGestures(t, g)
       ELSE /\ trk' = [trk EXCEPT ![t] = IdleThread("none")]
            /\ UNCHANGED seqVars
    /\ UNCHANGED <<engVars, appVars>>

\* _tracking_loop, lines 103-104: one iteration of the loop over midi_events
TrackerSend(t) ==
    /\ trk[t].pc = "returned"
    /\ IF Len(trk[t].midi_events) = 0
       THEN /\ trk' = [trk EXCEPT ![t] = IdleThread("loop")]
            /\ UNCHANGED <<audio_queue, enqueued>>
       ELSE /\ PlayNote(trk[t].midi_events[trk[t].i])
            /\ trk' = IF trk[t].i = Len(trk[t].midi_events)
                      THEN [trk EXCEPT ![t] = IdleThread("loop")]
                      ELSE [trk EXCEPT ![t].i = trk[t].i + 1]
    /\ UNCHANGED <<playing, audio_thread, active_sounds, volume, mixer_init, sounding, con,
                   ctl_pc, stop_returned, last_handled, out_of_order, last_raised, session_base, stop_all_raised>>
    /\ UNCHANGED <<seqVars, appVars>>

TrackerStep(t) ==
    \/ TrackerLoop(t)
    \/ ActionStage(t)
    \/ NoteStage(t)
    \/ ControlStage(t)
    \/ LogStage(t)
    \/ TrackerSend(t)

\* GUI _start_tracking -> start_tracking, lines 58-64: the camera opens or not;
\* when it does, running is set and a new tracking thread starts
StartTracking ==
    /\ ~is_tracking
    /\ ctl_pc = "idle"
    /\ is_tracking' = TRUE
    /\ \E opened \in BOOLEAN :
         IF opened
         THEN /\ \E t \in DOMAIN trk :
                   /\ trk[t].pc = "none"
                   /\ \A u \in DOMAIN trk : u < t => trk[u].pc # "none"
                   /\ trk' = [trk EXCEPT ![t] = IdleThread("loop")]
              /\ camera' = TRUE
              /\ running' = TRUE
              /\ ctl_pc' = "start_engine"
         ELSE UNCHANGED <<trk, camera, running, ctl_pc>>
    /\ UNCHANGED <<recVars, saveVars, envelope_call>>
    /\ UNCHANGED <<playing, audio_thread, audio_queue, active_sounds, volume, mixer_init,
                   sounding, con, stop_returned, enqueued, last_handled, out_of_order,
                   last_raised, session_base, stop_all_raised>>
    /\ UNCHANGED seqVars

\* start_tracking, line 67: self.audio_engine.start()
StartTrackingEngine ==
    /\ ctl_pc = "start_engine"
    /\ EngineStart
    /\ ctl_pc' = "idle"
    /\ UNCHANGED <<seqVars, trk, appVars>>

\* GUI _stop_tracking -> stop_tracking, lines 73-75, up to the join inside stop
StopTracking ==
    /\ is_tracking
    /\ running' = FALSE
    /\ camera' = FALSE
    /\ EngineStopBegin
    /\ UNCHANGED <<seqVars, trk, is_tracking, recVars, saveVars, envelope_call>>

\* stop, line 71, called from stop_tracking
StopTrackingJoin ==
    /\ EngineStopJoin
    /\ UNCHANGED <<seqVars, trk, appVars>>

\* stop, lines 74-77, called from stop_tracking
StopTrackingClear ==
    /\ EngineStopClear
    /\ UNCHANGED <<seqVars, trk, appVars>>

\* stop, lines 79-80; stop_tracking returns and the GUI clears is_tracking
StopTrackingQuit ==
    /\ EngineStopQuit
    /\ is_tracking' = FALSE
    /\ UNCHANGED <<seqVars, trk, running, camera, recVars, saveVars, envelope_call>>

(***************************************************************************)
(* GestureRecognizer: hand records in, gesture intents out.  Coordinates   *)
(* and times are rationals; a dictionary is a function on its keys.        *)
(***************************************************************************)
frame_width == 640
frame_height == 480
base_velocity == 64
velocity_threshold == 50

EmptyDict == [k \in {} |-> 0]

RLeq(a, b) == a.num * b.den <= b.num * a.den
RLess(a, b) == a.num * b.den < b.num * a.den
RMin(a, b) == IF RLeq(a, b) THEN a ELSE b
RMax(a, b) == IF RLeq(b, a) THEN a ELSE b
RMul(a, b) == Q(a.num * b.num, a.den * b.den)

\* np.sqrt of the squared distances the hand records give: exact for the perfect
\* squares, the integer part for the others. The records whose distance is not
\* a perfect square move at more than 200 px/s, where min(speed / 100, 1.0) and
\* min(speed / 100, 2.0) have the value of their cap and speed > 50 holds.
Sqrt(n) == CHOOSE r \in 0..800 : r * r <= n /\ n < (r + 1) * (r + 1)

\* the fingers in the order of the 'tips' dictionary (hand_tracker, lines 116-122)
Fingers == << "thumb", "index", "middle", "ring", "pinky" >>

FingerNames == { Fingers[i] : i \in 1..Len(Fingers) }

\* _create_note_zones: 7 octaves of 5 zones, entered octave by octave; zone k of
\* the dictionary (k = 1..35) is zone (k-1) % 5 of octave (k-1) \div 5, the
\* rectangle [z*0.2, (z+1)*0.2] x [o*0.14, (o+1)*0.14] with both ends included
ZoneCount == 35

ZoneOctave(k) == (k - 1) \div 5

ZoneColumn(k) == (k - 1) % 5

\* a grid of consecutive semitones
NoteZoneChromatic(k) ==
    [x_range |-> << Q(ZoneColumn(k), 5), Q(ZoneColumn(k) + 1, 5) >>,
     y_range |-> << Q(7 * ZoneOctave(k), 50), Q(7 * (ZoneOctave(k) + 1), 50) >>,
     note_number |-> ZoneOctave(k) * 12 + ZoneColumn(k) + 60]

NoteZone(k) ==
    [x_range |-> << Q(ZoneColumn(k), 5), Q(ZoneColumn(k) + 1, 5) >>,
     y_range |-> << Q(7 * ZoneOctave(k), 50), Q(7 * (ZoneOctave(k) + 1), 50) >>,
     note_number |-> ZoneOctave(k) * 12 + ZoneColumn(k) * 2 + 60]

InZone(k, x, y) ==
    /\ RLeq(NoteZone(k).x_range[1], x) /\ RLeq(x, NoteZone(k).x_range[2])
    /\ RLeq(NoteZone(k).y_range[1], y) /\ RLeq(y, NoteZone(k).y_range[2])

NoNote == [found |-> FALSE, note_number |-> -1]

\* _position_to_note: the first zone of the dictionary that holds (x, y)
PositionToNote(x, y) ==
    LET hits == { k \in 1..ZoneCount : InZone(k, x, y) }
    IN IF hits = {} THEN NoNote
       ELSE [found |-> TRUE,
             note_number |-> NoteZone(CHOOSE k \in hits : \A j \in hits : k <= j).note_number]

\* dict.get(key, default)
Get(dict, key, default) == IF key \in DOMAIN dict THEN dict[key] ELSE default

FingerStates(hand) == Get(hand.gesture_features, "finger_states", EmptyDict)

Extended(states, f) == Get(states, f, FALSE)

ExtendedCount(states) == Cardinality({ f \in DOMAIN states : states[f] })

\* hand speed in pixels per second since the previous record of this handedness;
\* dt is the time since that record
HandSpeed(hand, prev, dt) ==
    LET dx == hand.center[1] - prev.center[1]
        dy == hand.center[2] - prev.center[2]
    IN Q(Sqrt(dx * dx + dy * dy) * dt.den, dt.num)

\* _calculate_note_velocity
CalculateNoteVelocity(hand, previous, dt) ==
    LET hand_size == Get(hand.gesture_features, "hand_size", 100)
        size_factor == RMin(Q(hand_size, 100), Q(2, 1))
        speed_factor ==
            IF hand.handedness \in DOMAIN previous /\ dt.num > 0
            THEN LET speed == HandSpeed(hand, previous[hand.handedness], dt)
                 IN RMin(Q(speed.num, speed.den * 100), Q(2, 1))
            ELSE Q(1, 1)
        v == RMul(Q(base_velocity, 1), RMul(size_factor, speed_factor))
    IN Clamp(1, 127, IntTrunc(v.num, v.den))

\* _analyze_finger_positions: one trigger per extended finger whose tip is in a zone
AnalyzeFingerPositions(hand, previous, dt) ==
    IF "tips" \notin DOMAIN hand.finger_positions THEN << >>
    ELSE LET tips == hand.finger_positions.tips
             NormX(f) == Q(tips[f][1].num, tips[f][1].den * frame_width)
             NormY(f) == Q(tips[f][2].num, tips[f][2].den * frame_height)
             Triggers(f) == /\ f \in DOMAIN tips
                            /\ Extended(FingerStates(hand), f)
                            /\ PositionToNote(NormX(f), NormY(f)).found
             sel == SelectSeq(Fingers, Triggers)
         IN [i \in 1..Len(sel) |->
               [note_number |-> PositionToNote(NormX(sel[i]), NormY(sel[i])).note_number,
                velocity |-> CalculateNoteVelocity(hand, previous, dt),
                finger |-> sel[i]]]

\* _analyze_hand_movement
AnalyzeHandMovement(hand, previous, dt) ==
    IF ~(hand.handedness \in DOMAIN previous /\ dt.num > 0) THEN EmptyDict
    ELSE LET prev == previous[hand.handedness]
             dx == hand.center[1] - prev.center[1]
             dy == hand.center[2] - prev.center[2]
             velocity == HandSpeed(hand, prev, dt)
             amount == RMin(Q(velocity.num, velocity.den * 100), Q(1, 1))
             fast == RLess(Q(velocity_threshold, 1), velocity)
             norm_y == Q(hand.center[2], frame_height)
             keys == {"position_x", "position_y", "volume"}
                     \cup (IF fast /\ Abs(dx) > Abs(dy) THEN {"pitch_bend"} ELSE {})
                     \cup (IF fast /\ ~(Abs(dx) > Abs(dy)) THEN {"modulation"} ELSE {})
         IN [k \in keys |->
               CASE k = "pitch_bend" ->
                      Q((IF dx > 0 THEN 1 ELSE -1) * amount.num, amount.den)
                 [] k = "modulation" ->
                      Q((IF dy < 0 THEN 1 ELSE -1) * amount.num, amount.den)
                 [] k = "position_x" -> Q(hand.center[1], frame_width)
                 [] k = "position_y" -> norm_y
                 [] OTHER -> RMax(Q(1, 10), Q(norm_y.den - norm_y.num, norm_y.den))]

\* _is_fist, _is_open_hand, _is_pointing, _is_peace_sign
IsFist(states) == ExtendedCount(states) = 0

IsOpenHand(states) == ExtendedCount(states) >= 4

IsPointing(states) ==
    /\ Extended(states, "index")
    /\ ~Extended(states, "middle")
    /\ ~Extended(states, "ring")
    /\ ~Extended(states, "pinky")

IsPeaceSign(states) ==
    /\ Extended(states, "index")
    /\ Extended(states, "middle")
    /\ ~Extended(states, "ring")
    /\ ~Extended(states, "pinky")

\* _recognize_gesture_patterns: the action, first match wins
RecognizeGesturePatterns(hand) ==
    LET states == FingerStates(hand)
    IN CASE IsFist(states) -> "stop_all_notes"
         [] ~IsFist(states) /\ IsOpenHand(states) -> "sustain_notes"
         [] ~IsFist(states) /\ ~IsOpenHand(states) /\ IsPointing(states) -> "single_note"
         [] ~IsFist(states) /\ ~IsOpenHand(states) /\ ~IsPointing(states)
               /\ IsPeaceSign(states) -> "chord_mode"
         [] OTHER -> "multi_note"

\* analyze_hand: the intent of a hand record
AnalyzeHand(hand, previous, dt) ==
    [handedness |-> hand.handedness,
     notes |-> AnalyzeFingerPositions(hand, previous, dt),
     controls |-> AnalyzeHandMovement(hand, previous, dt),
     extended_fingers |-> ExtendedCount(FingerStates(hand)),
     action |-> RecognizeGesturePatterns(hand)]

\* analyze_hand, lines 89-93: the record kept for the next frame of this handedness
Remember(previous, hand) ==
    [h \in DOMAIN previous \cup {hand.handedness} |->
        IF h = hand.handedness
        THEN [center |-> hand.center, finger_positions |-> hand.finger_positions]
        ELSE previous[h]]

(***************************************************************************)
(* Hand records handed to analyze_hand                                     *)
(***************************************************************************)
\* hand centres in pixels; the three Left-hand centres are 5, 5 and 6 pixels apart
CentreA == << 320, 240 >>
CentreB == << 323, 244 >>
CentreC == << 326, 240 >>

\* finger tips in pixels: the index tip at (0.05, 0.02) of the frame, the other
\* tips in the zones of pitches 62, 64, 66 and 68
DefaultTips ==
    [f \in FingerNames |->
       CASE f = "thumb" -> << Q(192, 1), Q(168, 5) >>
         [] f = "index" -> << Q(32, 1), Q(48, 5) >>
         [] f = "middle" -> << Q(320, 1), Q(168, 5) >>
         [] f = "ring" -> << Q(448, 1), Q(168, 5) >>
         [] OTHER -> << Q(576, 1), Q(168, 5) >>]

IndexOnly == [f \in FingerNames |-> f = "index"]

\* the centre of zone k, in pixels
ZoneCentre(k) ==
    << Q(64 * (2 * ZoneColumn(k) + 1), 1), Q(168 * (2 * ZoneOctave(k) + 1), 5) >>

\* index tips on and beyond the edges of the grid, in pixels: x = 1.0, x > 1.0,
\* y = 0.98, y > 0.98, y = 1.0, x < 0, and the corner (1.0, 0.98); and tips on
\* edges shared by zones: (0.2, 0.07) and the corner (0.2, 0.14)
EdgeTips ==
    { << Q(640, 1), Q(240, 1) >>, << Q(641, 1), Q(240, 1) >>,
      << Q(320, 1), Q(2352, 5) >>, << Q(320, 1), Q(471, 1) >>,
      << Q(320, 1), Q(480, 1) >>, << Q(-1, 1), Q(240, 1) >>,
      << Q(640, 1), Q(2352, 5) >>,
      << Q(128, 1), Q(168, 5) >>, << Q(128, 1), Q(336, 5) >> }

HandRecord(handedness, centre, tips, states, size) ==
    [handedness |-> handedness,
     center |-> centre,
     finger_positions |-> [tips |-> tips],
     gesture_features |-> [finger_states |-> states, hand_size |-> size]]

\* process_frame with fewer than 21 landmarks: no finger positions, no features
PartialRecord(handedness, centre) ==
    [handedness |-> handedness,
     center |-> centre,
     finger_positions |-> EmptyDict,
     gesture_features |-> EmptyDict]

Hands ==
    { HandRecord("Right", CentreA, DefaultTips, s, 100) : s \in [FingerNames -> BOOLEAN] }
    \cup
    { HandRecord("Right", CentreA, [DefaultTips EXCEPT !["index"] = ZoneCentre(k)],
                 IndexOnly, 100) : k \in 1..ZoneCount }
    \cup
    { HandRecord("Right", CentreA, [DefaultTips EXCEPT !["index"] = p], IndexOnly, 100) :
         p \in EdgeTips }
    \cup
    { HandRecord("Left", c, DefaultTips, IndexOnly, z) :
         c \in {CentreA, CentreB, CentreC}, z \in {100, 250} }
    \cup
    \* a Left hand 30 pixels to the right of and 30 pixels below CentreA
    { HandRecord("Left", << 350, 270 >>, DefaultTips, IndexOnly, 100) }
    \cup
    { PartialRecord("Right", CentreA), PartialRecord("Unknown", << 0, 0 >>) }

\* time since the previous record of the handedness: none (equal clock readings),
\* one frame at 30 fps, three frames
Dts == { Q(0, 1), Q(1, 30), Q(1, 10) }

NoHand == PartialRecord("none", << 0, 0 >>)

NoEntry == [previous |-> EmptyDict, dt |-> Q(0, 1)]

(***************************************************************************)
(* The tracking loop without the synthesizer: classify, then sequence      *)
(***************************************************************************)
\* _tracking_loop, line 97: gestures = analyze_hand(hand_data)
RecAnalyze(t) ==
    /\ trk[t].pc = "idle"
    /\ frames_taken < MaxFrames
    /\ \E h \in Hands, dt \in Dts :
         /\ hand_data' = h
         /\ rec_entry' = [previous |-> previous_positions, dt |-> dt]
         /\ gestures' = AnalyzeHand(h, previous_positions, dt)
         /\ previous_positions' = Remember(previous_positions, h)
    /\ trk' = [trk EXCEPT ![t].pc = "analysed"]
    /\ UNCHANGED <<seqVars, engVars, running, camera, is_tracking, saveVars, envelope_call>>

\* _tracking_loop, line 100: midi_events = process_gestures(gestures)
RecProcess(t) ==
    /\ trk[t].pc = "analysed"
    /\ EnterProcessGestures(t, gestures)

(***************************************************************************)
(* MIDIGenerator.clear_all_notes, called by a thread other than the caller *)
(* of process_gestures                                                     *)
(***************************************************************************)
\* lines 262-265: under note_lock, self.current_notes.clear(); no event is made
ClearAllNotes ==
    /\ note_lock = NoHolder
    /\ current_notes' = {}
    /\ UNCHANGED <<note_lock, sustain_pedal, track, clock, last_event_time, last_delta, emitted, frames_taken, stream_on, dup_on>>
    /\ UNCHANGED <<trk, engVars, appVars>>

(***************************************************************************)
(* Saving the MIDI file: MusicCreatorGUI._save_midi                        *)
(***************************************************************************)
\* midi_file_path is in a fresh temporary directory: no file before the first save
NoFile == [exists |-> FALSE, complete |-> FALSE, messages |-> << >>]

\* what midi_file.save can do: write the whole track, fail to open the file
\* (the file stays as it was), or fail while writing (a truncated file is left)
SaveOutcomes == { "ok", "open_failed", "write_failed" }

\* save_midi_file: the exception of a failed save is caught and printed; nothing
\* is returned or raised to the caller
SaveMidiFile(outcome) ==
    /\ disk_file' = CASE outcome = "ok" ->
                           [exists |-> TRUE, complete |-> TRUE, messages |-> track]
                      [] outcome = "open_failed" -> disk_file
                      [] OTHER ->
                           [exists |-> TRUE, complete |-> FALSE, messages |-> << >>]
    /\ save_failed' = (outcome # "ok")

\* _save_midi with a file chosen: save_midi_file, then shutil.copy2 of the file
\* at midi_file_path, which raises when that file does not exist; the dialog
\* shows success unless an exception reached the handler
SaveMidi ==
    /\ saves < MaxSaves
    /\ saves' = saves + 1
    /\ \E outcome \in SaveOutcomes : SaveMidiFile(outcome)
    /\ save_report' = IF disk_file'.exists THEN "success" ELSE "error"
    /\ UNCHANGED <<seqVars, trk, engVars, running, camera, is_tracking, recVars, envelope_call>>

(***************************************************************************)
(* The two guards: which handler enters which 'with' block                 *)
(***************************************************************************)
\* the guards a handler of MIDIGenerator acquires, outermost first
SequencerGuards(handler) ==
    CASE handler = "_create_note_event" -> << "note_lock" >>
      [] handler = "_stop_note" -> << "note_lock" >>
      [] handler = "_stop_all_notes" -> << "note_lock", "note_lock" >>
      [] handler = "get_currently_playing_notes" -> << "note_lock" >>
      [] handler = "clear_all_notes" -> << "note_lock" >>
      [] OTHER -> << >>

\* an engine whose _play_note asks the sequencer for the playing notes while it
\* holds sound_lock
EngineGuardsNested(handler) ==
    CASE handler = "_play_note" -> << "sound_lock", "note_lock" >>
      [] OTHER -> << >>

\* the guards a handler of AudioEngine acquires, outermost first
EngineGuards(handler) ==
    CASE handler = "_play_note" -> << "sound_lock" >>
      [] handler = "_stop_note" -> << "sound_lock" >>
      [] handler = "stop" -> << "sound_lock" >>
      [] handler = "stop_all_notes" -> << "sound_lock" >>
      [] handler = "get_active_note_count" -> << "sound_lock" >>
      [] OTHER -> << >>

\* the handler of MIDIGenerator that the next step of tracking thread t runs
TrackerHandler(t) ==
    CASE trk[t].pc = "action" /\ trk[t].gestures.action = "stop_all_notes" -> "_stop_all_notes"
      [] trk[t].pc = "blocked" -> "_stop_note"
      [] trk[t].pc = "notes" -> "_create_note_event"
      [] OTHER -> "none"

\* the handler of AudioEngine that the next step of tracking thread t runs
TrackerEngineHandler(t) == IF trk[t].pc = "returned" THEN "play_note" ELSE "none"

\* the handler that the next step of consumer thread c runs
ConsumerHandler(c) ==
    CASE con[c].pc = "play" -> "_play_note"
      [] con[c].pc = "process" /\ con[c].event.type = "note_off" -> "_stop_note"
      [] OTHER -> "none"

\* the handler that the next step of the control thread runs
ControlHandler == IF ctl_pc = "clear" THEN "stop" ELSE "none"

\* the guards a context holds at some moment of its next step: those it holds
\* already and those its handler acquires
Held(already, nest) == already \cup { nest[i] : i \in DOMAIN nest }

(***************************************************************************)
(* Initial states and specifications                                       *)
(***************************************************************************)
\* MIDIGenerator.__init__
SeqInit ==
    /\ current_notes = {}
    /\ note_lock = NoHolder
    /\ sustain_pedal = FALSE
    /\ track = InitialTrack
    /\ emitted = 0
    /\ frames_taken = 0
    /\ stream_on = {}
    /\ dup_on = {}
    /\ clock = 0
    /\ last_event_time = 0
    /\ last_delta = 0

\* AudioEngine.__init__
EngInit ==
    /\ playing = FALSE
    /\ audio_thread = NoThread
    /\ audio_queue = << >>
    /\ active_sounds = << >>
    /\ volume = Q(1, 2)
    /\ mixer_init = TRUE
    /\ sounding = {}
    /\ con = [c \in Consumers |-> IdleConsumer("none")]
    /\ ctl_pc = "idle"
    /\ stop_returned = FALSE
    /\ enqueued = 0
    /\ last_handled = 0
    /\ out_of_order = FALSE
    /\ last_raised = 0
    /\ session_base = 0
    /\ stop_all_raised = FALSE

\* MotionMusicApp.__init__ and MusicCreatorGUI.__init__
AppInit ==
    /\ running = FALSE
    /\ camera = FALSE
    /\ is_tracking = FALSE
    /\ previous_positions = EmptyDict
    /\ hand_data = NoHand
    /\ rec_entry = NoEntry
    /\ gestures = NoFrame
    /\ disk_file = NoFile
    /\ save_failed = FALSE
    /\ save_report = "none"
    /\ saves = 0

\* the sequencer alone: one caller hands frames to process_gestures
InitSeq ==
    /\ SeqInit
    /\ EngInit
    /\ AppInit
    /\ envelope_call = << >>
    /\ trk = [t \in Trackers |-> IdleThread("idle")]

NextSeq ==
    \/ Call(Caller)
    \/ ActionStage(Caller)
    \/ NoteStage(Caller)
    \/ ControlStage(Caller)
    \/ LogStage(Caller)
    \/ Return(Caller)

SeqSpec == InitSeq /\ [][NextSeq]_vars

\* time passes: time.time() moves on by 5 or 25 milliseconds, or the system
\* clock is set back by 5
ClockTick ==
    /\ \E d \in { -5, 5, 25 } :
          /\ clock + d \in 0..MaxClock
          /\ clock' = clock + d
    /\ UNCHANGED <<current_notes, note_lock, sustain_pedal, track, emitted, frames_taken,
                   stream_on, dup_on, last_event_time, last_delta>>
    /\ UNCHANGED <<trk, engVars, appVars>>

\* the sequencer alone, with the clock running
NextTime ==
    \/ NextSeq
    \/ ClockTick

TimeSpec == InitSeq /\ [][NextTime]_vars

\* classifier and sequencer: one caller analyses hand records and hands the
\* intents to process_gestures
NextRec ==
    \/ RecAnalyze(Caller)
    \/ RecProcess(Caller)
    \/ ActionStage(Caller)
    \/ NoteStage(Caller)
    \/ ControlStage(Caller)
    \/ LogStage(Caller)
    \/ Return(Caller)

RecSpec == InitSeq /\ [][NextRec]_vars

\* the sequencer with another thread calling clear_all_notes at any moment
NextClear ==
    \/ NextSeq
    \/ ClearAllNotes

ClearSpec == InitSeq /\ [][NextClear]_vars

\* the sequencer with the GUI thread saving the MIDI file at any moment
NextSave ==
    \/ NextSeq
    \/ SaveMidi

SaveSpec == InitSeq /\ [][NextSave]_vars

\* the synthesis of a Sound: _calculate_envelope is called with a time of the
\* note and the engine's note_duration
InitSynth ==
    /\ SeqInit
    /\ EngInit
    /\ AppInit
    /\ trk = [t \in Trackers |-> IdleThread("none")]
    /\ envelope_call \in { [t |-> x, returned |-> FALSE, phase |-> "none", value |-> Q(0, 1)] :
                               x \in EnvelopeTimes }

SynthSpec == InitSynth /\ [][EnvelopeCall]_vars

\* the application after construction: no tracking thread, no consumer thread
Init ==
    /\ SeqInit
    /\ EngInit
    /\ AppInit
    /\ envelope_call = << >>
    /\ trk = [t \in Trackers |-> IdleThread("none")]

\* the sessions of the application seen from the tracking threads: start_tracking
\* and stop_tracking with the tracking threads they leave behind; the consumer
\* threads take no step
InitTrack ==
    /\ SeqInit
    /\ EngInit
    /\ AppInit
    /\ envelope_call = << >>
    /\ trk = [t \in Producers |-> IdleThread("none")]

NextTrack ==
    \/ StartTracking
    \/ StartTrackingEngine
    \/ StopTracking
    \/ StopTrackingJoin
    \/ StopTrackingClear
    \/ StopTrackingQuit
    \/ \E t \in Producers : TrackerStep(t)

TrackSpec == InitTrack /\ [][NextTrack]_vars

\* the synthesizer alone, driven through its public operations
NextEngine ==
    \/ CallStart
    \/ CallStop
    \/ CallSetVolume
    \/ CallStopAllNotes
    \/ CallPlayNote
    \/ \E c \in Consumers : ConsumerStep(c)
    \/ VoiceEnds

EngineSpec == Init /\ [][NextEngine]_vars

\* the synthesizer alone, with the events that make no sound among its input
NextDispatch ==
    \/ NextEngine
    \/ CallPlayOther

DispatchSpec == Init /\ [][NextDispatch]_vars

\* the consumer threads are scheduled: a consumer that can take a step takes one
FairEngineSpec == EngineSpec /\ \A c \in Consumers : WF_vars(ConsumerStep(c))

\* the whole pipeline: GUI start / stop, tracking threads, consumer threads
Next ==
    \/ StartTracking
    \/ StartTrackingEngine
    \/ StopTracking
    \/ StopTrackingJoin
    \/ StopTrackingClear
    \/ StopTrackingQuit
    \/ \E t \in Trackers : TrackerStep(t)
    \/ \E c \in Consumers : ConsumerStep(c)
    \/ VoiceEnds

Spec == Init /\ [][Next]_vars

(***************************************************************************)
(* Properties of the sequencer                                             *)
(***************************************************************************)
\* thread t takes the step that ends the action stage of its frame
ActionEnds(t) == trk[t].pc = "action" /\ trk'[t].pc # "action"

\* the frame of thread t is past its action stage
PastAction(t) == trk[t].pc \in {"notes", "controls", "log", "returned"}

IsSustainEvent(e, v) ==
    e.type = "control_change" /\ e.control = 64 /\ e.value = v

\* C1 (first half): in the emitted stream no pitch gets a second NoteOn while its
\* latest note event is a NoteOn, whether the two triggers are in one frame or two.
C1_NoSecondNoteOn == dup_on = {}

\* C1: dedup law.  No pitch gets a second NoteOn without a NoteOff in between, and
\* a pitch that is sounding can be silenced and triggered again: when the StopAll
\* action of a frame has come to its end (the thread has left the action stage, by
\* going on or by stopping for good), every pitch that was sounding has its
\* NoteOff in the stream and a next trigger for it would emit a new NoteOn.
C1_DedupLaw ==
    [][ /\ dup_on' = {}
        /\ \A t \in Trackers :
             (ActionEnds(t) /\ trk[t].gestures.action = "stop_all_notes")
                => \A p \in stream_on :
                      p \notin stream_on' /\ ~NoteAlreadyPlaying(p, current_notes') ]_vars

\* C2: StopAll law.  The step that ends the StopAll action of a frame, taken with
\* N pitches in ActiveNoteSet, leaves ActiveNoteSet empty and has emitted exactly
\* N NoteOff events, one per pitch that was active.
C2_StopAllLaw ==
    [][ \A t \in Trackers :
          (ActionEnds(t) /\ trk[t].gestures.action = "stop_all_notes")
             => /\ current_notes' = {}
                /\ Len(trk'[t].midi_events) = Cardinality(current_notes)
                /\ OffPitches(trk'[t].midi_events) = current_notes
                /\ OnPitches(trk'[t].midi_events) = {} ]_vars

C5_SustainPress ==
    [][ \A t \in Trackers :
          /\ (ActionEnds(t) /\ trk[t].gestures.action = "sustain_notes")
               => /\ sustain_pedal' = TRUE
                  /\ Len(trk'[t].midi_events) = 1
                  /\ current_notes' = current_notes
          /\ (PastAction(t)' /\ trk'[t].gestures.action = "sustain_notes")
               => IsSustainEvent(trk'[t].midi_events[1], 127) ]_vars

\* C5 witness: a Sustain frame with note triggers has returned: the flag went
\* from off to on, ControlChange(64, 127) is first and NoteOns follow it.
C5_Witness ==
    \E t \in Trackers :
        /\ trk[t].pc = "returned"
        /\ trk[t].gestures.action = "sustain_notes"
        /\ ~trk[t].entry_sustain
        /\ sustain_pedal
        /\ IsSustainEvent(trk[t].midi_events[1], 127)
        /\ Len(trk[t].midi_events) > 1
        /\ trk[t].midi_events[2].type = "note_on"

\* an emitted event is in MIDI range
InMidiRange(e) ==
    CASE e.type = "note_on" -> e.note \in 0..127 /\ e.velocity \in 1..127
      [] e.type = "note_off" -> e.note \in 0..127
      [] e.type = "control_change" -> e.value \in 0..127
      [] e.type = "pitchwheel" -> e.pitch \in 0..16383
      [] OTHER -> FALSE

\* C9: clamping, not rejection.  Every event of a frame's list is in MIDI range,
\* and when the frame returns nothing was rejected: every trigger that carries a
\* pitch has its clamped pitch in ActiveNoteSet and every control value given has
\* its event in the list.
C9_Clamping ==
    \A t \in Trackers :
        /\ \A k \in 1..Len(trk[t].midi_events) : InMidiRange(trk[t].midi_events[k])
        /\ trk[t].pc = "returned" =>
             LET g == trk[t].gestures
                 evs == trk[t].midi_events
                 n_ctl == Cardinality({ k \in 1..Len(evs) :
                             \/ evs[k].type = "pitchwheel"
                             \/ evs[k].type = "control_change" /\ evs[k].control # 64 })
             IN /\ \A k \in 1..Len(g.notes) :
                      HasNoteNumber(g.notes[k]) =>
                         Max(0, Min(127, g.notes[k].note_number)) \in current_notes
                /\ n_ctl = Cardinality(DOMAIN g.controls)

\* C9 witness: a frame with pitch 200, velocity 300 and control values outside
\* their ranges has returned with NoteOn(127, velocity 127), PitchWheel(16383),
\* modulation 127 and volume 0.
C9_Witness ==
    \E t \in Trackers :
        /\ trk[t].pc = "returned"
        /\ Len(trk[t].gestures.notes) > 0
        /\ trk[t].gestures.notes[1] = [note_number |-> 200, velocity |-> 300]
        /\ trk[t].gestures.controls =
              [pitch_bend |-> Q(3, 2), modulation |-> Q(-2, 1), volume |-> Q(-1, 4)]
        /\ \E k \in 1..Len(trk[t].midi_events) :
              /\ trk[t].midi_events[k].type = "note_on"
              /\ trk[t].midi_events[k].note = 127
              /\ trk[t].midi_events[k].velocity = 127
        /\ \E k \in 1..Len(trk[t].midi_events) :
              /\ trk[t].midi_events[k].type = "pitchwheel"
              /\ trk[t].midi_events[k].pitch = 16383
        /\ \E k \in 1..Len(trk[t].midi_events) :
              /\ trk[t].midi_events[k].type = "control_change"
              /\ trk[t].midi_events[k].control = 7
              /\ trk[t].midi_events[k].value = 0

(***************************************************************************)
(* Properties of the synthesizer and of the pipeline                       *)
(***************************************************************************)
\* the stage of process_gestures an event comes from
StageOf(e) ==
    CASE e.type = "note_off" -> 1
      [] e.type = "control_change" /\ e.control = 64 -> 1
      [] e.type = "note_on" -> 2
      [] OTHER -> 3

\* C3: ordering.  The events of a frame are listed action events first, then
\* note events, then control events; the queue holds events in the order the
\* sequencer emitted them; and no consumer has handled an event after a later one.
C3_Ordering ==
    /\ \A t \in Trackers :
         \A i, j \in 1..Len(trk[t].midi_events) :
            i < j => StageOf(trk[t].midi_events[i]) <= StageOf(trk[t].midi_events[j])
    /\ \A i, j \in 1..Len(audio_queue) :
         i < j => audio_queue[i].seq < audio_queue[j].seq
    /\ ~out_of_order

\* C6: shutdown.  From the return of stop until the next start, ActiveVoiceSet is
\* empty and no voice is sounding on the backend.
C6_Shutdown ==
    stop_returned => DOMAIN active_sounds = {} /\ sounding = {}

\* the event enqueued as number s waits in the queue or is held by a consumer
InFlight(s) ==
    \/ \E i \in 1..Len(audio_queue) : audio_queue[i].seq = s
    \/ \E c \in Consumers : con[c].pc \in {"process", "play"} /\ con[c].event.seq = s

\* C7: consumer liveness and failure isolation.  Every enqueued event is taken and
\* processed unless the engine stops running first, and a consumer ends only at
\* its loop test when the engine is not running, never because an event raised.
C7_ConsumerLiveness ==
    /\ \A s \in 1..MaxEnqueued : InFlight(s) ~> (~InFlight(s) \/ ~playing)
    /\ [][ \A c \in Consumers :
             (con[c].pc # "none" /\ con'[c].pc = "none")
                => (con[c].pc = "check" /\ ~playing) ]_vars

\* C7 witness: the engine is running, an event raised while it was processed and
\* an event enqueued behind it has been processed since.
C7_Witness ==
    /\ playing
    /\ last_raised > 0
    /\ last_handled > last_raised
    /\ ~out_of_order

\* C8: single consumer.  At most one consumer thread exists at any time.
C8_SingleConsumer ==
    Cardinality({ c \in Consumers : con[c].pc # "none" }) <= 1

Processes(c) == con[c].pc = "process" /\ con'[c].pc # "process"

\* C11: synthesizer NoteOff.  The step that processes NoteOff(p) stops the voice of
\* p and removes p from ActiveVoiceSet, leaving the other entries and the master
\* volume as they were; with p absent it changes nothing.
C11_NoteOff ==
    [][ \A c \in Consumers :
          (Processes(c) /\ con[c].event.type = "note_off")
             => LET p == con[c].event.note IN
                /\ volume' = volume
                /\ IF p \in DOMAIN active_sounds
                   THEN /\ active_sounds[p] \notin sounding'
                        /\ active_sounds' = Without(active_sounds, p)
                        /\ sounding' = sounding \ {active_sounds[p]}
                   ELSE UNCHANGED <<active_sounds, sounding>> ]_vars

(***************************************************************************)
(* Claims about the gesture classifier                                     *)
(***************************************************************************)
\* the record analysed last carries finger states
HasFingerStates == "finger_states" \in DOMAIN hand_data.gesture_features

\* the fingers of the record analysed last that are extended
ExtendedSet == { f \in FingerNames : hand_data.gesture_features.finger_states[f] }

\* C12: gesture classification. Over every combination of the five finger states
\* the action is: none extended -> stop_all_notes; four or more -> sustain_notes;
\* the index alone, the thumb folded too -> single_note; index and middle alone
\* -> chord_mode; every other combination -> multi_note.
C12_Classification ==
    HasFingerStates =>
       gestures.action =
          CASE ExtendedSet = {} -> "stop_all_notes"
            [] Cardinality(ExtendedSet) >= 4 -> "sustain_notes"
            [] ExtendedSet = {"index"} -> "single_note"
            [] ExtendedSet = {"index", "middle"} -> "chord_mode"
            [] OTHER -> "multi_note"

\* the same table with the thumb left out of the tests for pointing and peace sign
ClassificationThumbIgnored ==
    HasFingerStates =>
       gestures.action =
          CASE ExtendedSet = {} -> "stop_all_notes"
            [] Cardinality(ExtendedSet) >= 4 -> "sustain_notes"
            [] ExtendedSet \ {"thumb"} = {"index"} -> "single_note"
            [] ExtendedSet \ {"thumb"} = {"index", "middle"} -> "chord_mode"
            [] OTHER -> "multi_note"

\* the tip of finger f in the record analysed last, in pixels
TipOf(f) == hand_data.finger_positions.tips[f]

\* the triggers of the intent returned last that come from finger f
TriggersOf(f) == { i \in DOMAIN gestures.notes : gestures.notes[i].finger = f }

\* the NoteOn events of an event list
NoteOns(events) == { i \in DOMAIN events : events[i].type = "note_on" }

\* C13: zone centre lookup. An extended index finger whose tip is at the centre of
\* zone z of octave o, that is at ((2z+1)/10, 7(2o+1)/100) of the frame, triggers
\* pitch 60 + 12o + 2z, for every o in 0..6 and z in 0..4; and a frame whose only
\* extended finger is the index at (0.05, 0.02) returns exactly one NoteOn, for
\* pitch 60, when 60 was not in current_notes.
C13_ZoneCentres ==
    /\ \A o \in 0..6, z \in 0..4 :
          ( /\ HasFingerStates
            /\ "index" \in ExtendedSet
            /\ TipOf("index") = << Q(64 * (2 * z + 1), 1), Q(168 * (2 * o + 1), 5) >> )
          => /\ Cardinality(TriggersOf("index")) = 1
             /\ \A i \in TriggersOf("index") :
                   gestures.notes[i].note_number = 60 + 12 * o + 2 * z
    /\ \A t \in DOMAIN trk :
          ( /\ trk[t].pc = "returned"
            /\ HasFingerStates
            /\ ExtendedSet = {"index"}
            /\ TipOf("index") = << Q(32, 1), Q(48, 5) >>
            /\ 60 \notin trk[t].entry_notes )
          => /\ Cardinality(NoteOns(trk[t].midi_events)) = 1
             /\ \A i \in NoteOns(trk[t].midi_events) : trk[t].midi_events[i].note = 60

\* a frame with the index alone at (0.05, 0.02) returned NoteOn(60); before it a
\* frame with the index at the centre of the last zone was analysed
C13_Witness ==
    /\ trk[Caller].pc = "returned"
    /\ HasFingerStates
    /\ ExtendedSet = {"index"}
    /\ TipOf("index") = << Q(32, 1), Q(48, 5) >>
    /\ 60 \notin trk[Caller].entry_notes
    /\ NoteOns(trk[Caller].midi_events) # {}
    /\ 127 \in trk[Caller].entry_notes

\* the tip of finger f in the record analysed last, as fractions of the frame
NormTip(f) ==
    << Q(TipOf(f)[1].num, TipOf(f)[1].den * frame_width),
       Q(TipOf(f)[2].num, TipOf(f)[2].den * frame_height) >>

\* C14: out-of-grid positions. An extended finger whose tip is below the grid
\* (y beyond 7 * 0.14 = 0.98) or at the horizontal boundary (x = 5 * 0.2 = 1.0, or
\* beyond it) produces no note trigger.
C14_OutOfGrid ==
    \A f \in FingerNames :
       ( /\ HasFingerStates
         /\ f \in ExtendedSet
         /\ \/ RLess(Q(49, 50), NormTip(f)[2])
            \/ RLeq(Q(1, 1), NormTip(f)[1]) )
       => TriggersOf(f) = {}

\* no trigger for a tip strictly beyond an edge of the grid
NoNoteBeyondGrid ==
    \A f \in FingerNames :
       ( /\ HasFingerStates
         /\ f \in ExtendedSet
         /\ \/ RLess(Q(49, 50), NormTip(f)[2])
            \/ RLess(Q(1, 1), NormTip(f)[1])
            \/ RLess(NormTip(f)[1], Q(0, 1)) )
       => TriggersOf(f) = {}

(***************************************************************************)
(* Claims about the master volume                                          *)
(***************************************************************************)
InUnitRange(v) == v.den > 0 /\ 0 <= v.num /\ v.num <= v.den

\* C15: master volume range. Whatever set_volume calls (arguments below 0, inside
\* and above 1) and volume control changes made by the sequencer are interleaved,
\* the master volume stays within [0, 1]; a set_volume call stores its argument
\* clamped: 0 for -1/2, 1/4 for 1/4, 1 for 3/2.
C15_VolumeRange ==
    [][ /\ InUnitRange(volume) /\ InUnitRange(volume')
        /\ (volume' # volume /\ con' = con) => volume' \in { Q(0, 1), Q(1, 4), Q(1, 1) }
      ]_vars

\* set_volume(3/2) stored 1 after the consumer had handled two events
C15_Witness == volume = Q(1, 1) /\ last_handled = 2 /\ ctl_pc = "idle"

(***************************************************************************)
(* Claims about the MIDI track                                             *)
(***************************************************************************)
\* the last n messages of the track
TrackTail(n) == SubSeq(track, Len(track) - n + 1, Len(track))

\* C16: persisted log content. The track starts with the tempo message (500000)
\* and the program change (program 0); when process_gestures returns, the track
\* holds one message for every event created so far, and its last messages are
\* the events of the returned list, in the order of the list.
C16_LogContent ==
    /\ Len(track) >= 2
    /\ track[1] = [type |-> "set_tempo", tempo |-> 500000]
    /\ track[2] = [type |-> "program_change", channel |-> 0, program |-> 0]
    /\ \A t \in DOMAIN trk :
          trk[t].pc = "returned" =>
             LET evs == trk[t].midi_events IN
             /\ Len(track) = 2 + emitted
             /\ TrackTail(Len(evs)) = [i \in 1..Len(evs) |-> ToMessage(evs[i])]

\* the same with the pitch wheel messages that mido refuses left out of the count
LogContentButRefused ==
    \A t \in DOMAIN trk :
       trk[t].pc = "returned" =>
          LET evs == SelectSeq(trk[t].midi_events, MidoAccepts) IN
          TrackTail(Len(evs)) = [i \in 1..Len(evs) |-> ToMessage(evs[i])]

(***************************************************************************)
(* Claims about saving                                                     *)
(***************************************************************************)
\* C17: persisted-log write failure. When saving the MIDI file fails, the save
\* operation reports an error to its caller, and the in-memory track is unchanged.
C17_SaveFailure ==
    [][ (saves' = saves + 1 /\ save_failed')
           => (save_report' = "error" /\ track' = track) ]_vars

\* a save never changes the in-memory track
SaveKeepsTrack == [][ saves' = saves + 1 => track' = track ]_vars

\* the record analysed last has no finger tips and no finger states
IsPartialRecord ==
    /\ hand_data # NoHand
    /\ "tips" \notin DOMAIN hand_data.finger_positions
    /\ "finger_states" \notin DOMAIN hand_data.gesture_features

\* C18: malformed or partial hand record. For a record without finger tips and
\* finger states the classifier returns an empty intent, no note triggers and no
\* controls, and the frame, once processed, has emitted no NoteOn or NoteOff and
\* left current_notes as it was.
C18_PartialRecord ==
    IsPartialRecord =>
       /\ gestures.notes = << >>
       /\ DOMAIN gestures.controls = {}
       /\ \A t \in DOMAIN trk :
             trk[t].pc = "returned" =>
                /\ \A i \in DOMAIN trk[t].midi_events :
                      trk[t].midi_events[i].type \notin {"note_on", "note_off"}
                /\ current_notes = trk[t].entry_notes

\* a partial record triggers no note, but is classified as a fist
PartialRecordIsFist ==
    IsPartialRecord => (gestures.notes = << >> /\ gestures.action = "stop_all_notes")

(***************************************************************************)
(* Claims about the note guard                                             *)
(***************************************************************************)
\* C19: no self-deadlock in the sequencer. A frame with the StopAll action never
\* blocks on note_lock, and process_gestures returns with note_lock released.
C19_NoSelfDeadlock ==
    \A t \in DOMAIN trk :
       /\ trk[t].pc # "blocked"
       /\ trk[t].pc \in {"returned", "idle"} => note_lock # t

(***************************************************************************)
(* Claims about the hand-over from the sequencer to the synthesizer        *)
(***************************************************************************)
\* tracking thread t takes the step that hands its next event to play_note
Sends(t) ==
    /\ trk[t].pc = "returned"
    /\ Len(trk[t].midi_events) > 0
    /\ trk'[t] # trk[t]

\* C20: no lost NoteOn at session start or stop. Every NoteOn that a tracking
\* thread hands to play_note is put on the audio queue, so that no pitch is in
\* current_notes while its NoteOn was discarded.
C20_NoLostNoteOn ==
    [][ \A t \in Trackers :
          (Sends(t) /\ trk[t].midi_events[trk[t].i].type = "note_on")
             => audio_queue' = Append(audio_queue, trk[t].midi_events[trk[t].i]) ]_vars

\* while the engine's flag is set, every event handed over is put on the queue
SendWhilePlaying ==
    [][ \A t \in Trackers :
          (Sends(t) /\ playing)
             => audio_queue' = Append(audio_queue, trk[t].midi_events[trk[t].i]) ]_vars

(***************************************************************************)
(* Claims about the sequencer and the synthesizer together                 *)
(***************************************************************************)
\* no consumer thread holds an event
ConsumersIdle == \A c \in Consumers : con[c].pc \in {"none", "check", "get"}

\* no tracking thread is inside a frame: all it emitted has been handed over
TrackersIdle == \A t \in Trackers : trk[t].pc \in {"none", "loop"}

\* C21: quiescent agreement of the two sets. Whenever the engine is running, the
\* queue is empty, no consumer holds an event and no frame is in progress, the
\* pitches in current_notes are the pitches in active_sounds.
C21_QuiescentAgreement ==
    (playing /\ audio_queue = << >> /\ ConsumersIdle /\ TrackersIdle)
       => current_notes = DOMAIN active_sounds

\* C22: current_notes tracks the emitted stream. After any sequence of
\* process_gestures and clear_all_notes calls, current_notes is exactly the set of
\* pitches whose latest emitted note event is a NoteOn.
C22_TracksStream == current_notes = stream_on

\* every pitch in current_notes got a NoteOn that no NoteOff followed
NotesWereAnnounced == current_notes \subseteq stream_on

(***************************************************************************)
(* Claims about the consumer thread and the sessions of the engine         *)
(***************************************************************************)
\* C23: consumer exit. Once stop has cleared the running flag, every consumer
\* thread eventually leaves its loop, the threads being scheduled fairly.
C23_ConsumerExit ==
    \A c \in Consumers : (~playing /\ con[c].pc # "none") ~> (con[c].pc = "none")

\* the wait on the queue is bounded: a consumer leaves its loop unless the flag is
\* set again before it reads it
ExitUnlessRestarted ==
    \A c \in Consumers : (~playing /\ con[c].pc # "none") ~> (con[c].pc = "none" \/ playing)

\* consumer c takes an event off the queue
Takes(c) == con[c].pc = "get" /\ con'[c].pc = "process"

\* C24: no stale events across sessions. An event that a consumer takes off the
\* queue was enqueued after the start that began the running session: events left
\* in the queue by a stopped session are never processed by a later one.
C24_NoStaleEvents ==
    [][ \A c \in Consumers : Takes(c) => con'[c].event.seq > session_base ]_vars

\* the tracking threads that are inside a frame: classification done, the intent
\* in process_gestures or its events on the way to play_note
InFrame == { t \in DOMAIN trk : trk[t].pc \notin {"none", "loop"} }

\* C25: single producer. After any sequence of start_tracking and stop_tracking
\* calls at most one tracking thread is working on a frame at any time.
C25_SingleProducer == Cardinality(InFrame) <= 1

\* C26: no orphan voices. Every voice sounding on the backend is the entry
\* registered in active_sounds for its pitch; the step that replaces or removes an
\* entry has stopped its voice; and stop_all_notes never ends without having
\* cleared active_sounds.
C26_NoOrphanVoices ==
    [][ /\ ~stop_all_raised'
        /\ \A s \in sounding' :
             s.note \in DOMAIN active_sounds' /\ active_sounds'[s.note] = s
        /\ \A n \in DOMAIN active_sounds :
             (n \notin DOMAIN active_sounds' \/ active_sounds'[n] # active_sounds[n])
                => active_sounds[n] \notin sounding' ]_vars

\* the voices and their entries agree in every state, also when stop_all_notes raises
VoicesAreRegistered ==
    [][ /\ \A s \in sounding' :
             s.note \in DOMAIN active_sounds' /\ active_sounds'[s.note] = s
        /\ \A n \in DOMAIN active_sounds :
             (n \notin DOMAIN active_sounds' \/ active_sounds'[n] # active_sounds[n])
                => active_sounds[n] \notin sounding' ]_vars

(***************************************************************************)
(* Claims about the two guards                                             *)
(***************************************************************************)
BothGuards == {"note_lock", "sound_lock"}

\* the guards each kind of context holds at some moment of its next step
TrackerHolds(t) ==
    Held(IF note_lock = t /\ trk[t].pc # "none" THEN {"note_lock"} ELSE {},
         SequencerGuards(TrackerHandler(t)) \o EngineGuards(TrackerEngineHandler(t)))

ConsumerHolds(c) == Held({}, EngineGuards(ConsumerHandler(c)))

ControlHolds == Held({}, EngineGuards(ControlHandler))

\* C27: independent guards. No tracking thread, consumer thread or control
\* thread ever holds note_lock and sound_lock at the same time, in any operation
\* of the sequencer or the synthesizer.
C27_IndependentGuards ==
    /\ \A t \in Trackers : ~(BothGuards \subseteq TrackerHolds(t))
    /\ \A c \in Consumers : ~(BothGuards \subseteq ConsumerHolds(c))
    /\ ~(BothGuards \subseteq ControlHolds)

\* a tracking thread holds note_lock while a consumer thread is about to enter
\* sound_lock in _play_note
C27_Witness ==
    \E t \in Trackers, c \in Consumers :
       /\ note_lock = t
       /\ "note_lock" \in TrackerHolds(t)
       /\ ConsumerHolds(c) = {"sound_lock"}
       /\ con[c].pc = "play"

(***************************************************************************)
(* Claims about the grid of zones                                          *)
(***************************************************************************)
\* the zones whose range test holds for the tip of finger f
ZonesAt(f) == { k \in 1..ZoneCount : InZone(k, NormTip(f)[1], NormTip(f)[2]) }

\* C28: unique zone match. For the tip of every extended finger at most one zone
\* of the grid matches, and a tip with z*0.2 <= x < (z+1)*0.2 and
\* o*0.14 <= y < (o+1)*0.14 triggers the pitch of zone z of octave o: a point on
\* an edge shared by two zones belongs to the zone that starts there.
C28_UniqueZoneMatch ==
    HasFingerStates =>
       \A f \in ExtendedSet :
          /\ Cardinality(ZonesAt(f)) <= 1
          /\ \A o \in 0..6, z \in 0..4 :
                ( /\ RLeq(Q(z, 5), NormTip(f)[1]) /\ RLess(NormTip(f)[1], Q(z + 1, 5))
                  /\ RLeq(Q(7 * o, 50), NormTip(f)[2])
                  /\ RLess(NormTip(f)[2], Q(7 * (o + 1), 50)) )
                => /\ TriggersOf(f) # {}
                   /\ \A i \in TriggersOf(f) :
                         gestures.notes[i].note_number = 60 + 12 * o + 2 * z

\* off the shared edges exactly one zone matches a tip inside the grid
UniqueOffTheEdges ==
    HasFingerStates =>
       \A f \in ExtendedSet :
          \A o \in 0..6, z \in 0..4 :
             ( /\ RLess(Q(z, 5), NormTip(f)[1]) /\ RLess(NormTip(f)[1], Q(z + 1, 5))
               /\ RLess(Q(7 * o, 50), NormTip(f)[2])
               /\ RLess(NormTip(f)[2], Q(7 * (o + 1), 50)) )
             => /\ Cardinality(ZonesAt(f)) = 1
                /\ \A i \in TriggersOf(f) :
                      gestures.notes[i].note_number = 60 + 12 * o + 2 * z

\* the zones, as (octave, column), whose pitch becomes p when the sequencer has
\* clamped it to 0..127
ZonesSounding(p) ==
    { oz \in (0..6) \X (0..4) : Min(127, 60 + 12 * oz[1] + 2 * oz[2]) = p }

\* C29: distinct zones sound distinct pitches. The pitch of every NoteOn that a
\* frame returns belongs to one zone only: no two zones of the grid end up as the
\* same pitch after the sequencer's clamping and de-duplication.
C29_DistinctPitches ==
    \A t \in DOMAIN trk :
       trk[t].pc = "returned" =>
          \A i \in NoteOns(trk[t].midi_events) :
             Cardinality(ZonesSounding(trk[t].midi_events[i].note)) <= 1

\* the zones of the grid have pairwise different note numbers before the clamp
DistinctBeforeClamp ==
    \A j, k \in 1..ZoneCount :
       j # k => NoteZone(j).note_number # NoteZone(k).note_number

\* the intent analysed last carries the three position controls, its volume is
\* max(0.1, 1 - position_y), and the frame, once processed, has emitted a volume
\* ControlChange
CarriesVolume ==
    /\ {"position_x", "position_y", "volume"} \subseteq DOMAIN gestures.controls
    /\ LET y == gestures.controls.position_y
           expected == RMax(Q(1, 10), Q(y.den - y.num, y.den))
       IN /\ RLeq(gestures.controls.volume, expected)
          /\ RLeq(expected, gestures.controls.volume)
    /\ \A t \in DOMAIN trk :
          trk[t].pc = "returned" =>
             \E i \in DOMAIN trk[t].midi_events :
                /\ trk[t].midi_events[i].type = "control_change"
                /\ trk[t].midi_events[i].control = VolumeControl

\* C30: volume control is always emitted. Every intent returned by the
\* classifier, the first frame of a handedness and slow frames included, contains
\* position_x, position_y and volume = max(0.1, 1 - position_y), and the
\* sequencer emits a volume ControlChange for the frame.
C30_VolumeAlways == hand_data # NoHand => CarriesVolume

\* with a previous record of the handedness and a positive time step the intent
\* carries the volume and the frame emits its ControlChange, at any speed
VolumeWithHistory ==
    ( /\ hand_data # NoHand
      /\ hand_data.handedness \in DOMAIN rec_entry.previous
      /\ rec_entry.dt.num > 0 ) => CarriesVolume

\* without a previous record of the handedness, or with a time step of zero, the
\* intent has no controls at all
NoControlsWithoutHistory ==
    ( /\ hand_data # NoHand
      /\ ~(hand_data.handedness \in DOMAIN rec_entry.previous /\ rec_entry.dt.num > 0) )
       => DOMAIN gestures.controls = {}

(***************************************************************************)
(* Claims about the movement controls and their encoding                   *)
(***************************************************************************)
\* the record analysed last has a previous record of its handedness, taken a
\* positive time before it
HasHistory ==
    /\ hand_data # NoHand
    /\ hand_data.handedness \in DOMAIN rec_entry.previous
    /\ rec_entry.dt.num > 0

\* the displacement of the hand centre since the previous record
MovedX == hand_data.center[1] - rec_entry.previous[hand_data.handedness].center[1]

MovedY == hand_data.center[2] - rec_entry.previous[hand_data.handedness].center[2]

\* the hand moved at more than velocity_threshold pixels per second
MovedFast ==
    (MovedX * MovedX + MovedY * MovedY) * rec_entry.dt.den * rec_entry.dt.den
       > velocity_threshold * velocity_threshold * rec_entry.dt.num * rec_entry.dt.num

\* the intent has pitch_bend, with the sign of dx, and no modulation
BendOnly ==
    /\ "pitch_bend" \in DOMAIN gestures.controls
    /\ "modulation" \notin DOMAIN gestures.controls
    /\ (gestures.controls.pitch_bend.num > 0) = (MovedX > 0)
    /\ gestures.controls.pitch_bend.num # 0

\* the intent has modulation, positive for upward motion, and no pitch_bend
ModulationOnly ==
    /\ "modulation" \in DOMAIN gestures.controls
    /\ "pitch_bend" \notin DOMAIN gestures.controls
    /\ (gestures.controls.modulation.num > 0) = (MovedY < 0)
    /\ gestures.controls.modulation.num # 0

NeitherControl ==
    /\ "pitch_bend" \notin DOMAIN gestures.controls
    /\ "modulation" \notin DOMAIN gestures.controls

\* C31: movement-to-control mapping. With a previous frame of the handedness, a
\* hand faster than 50 px/s gives exactly one of pitch_bend and modulation:
\* pitch_bend with the sign of dx when |dx| >= |dy|, ties included, modulation
\* (positive upwards) otherwise; a hand that is not faster gives neither.
C31_MovementMapping ==
    HasHistory =>
       IF MovedFast
       THEN IF Abs(MovedX) >= Abs(MovedY) THEN BendOnly ELSE ModulationOnly
       ELSE NeitherControl

\* the mapping as the claim states it, for every movement but the ties
MappingOffTies ==
    (HasHistory /\ Abs(MovedX) # Abs(MovedY)) =>
       IF MovedFast
       THEN IF Abs(MovedX) > Abs(MovedY) THEN BendOnly ELSE ModulationOnly
       ELSE NeitherControl

\* a fast movement with |dx| = |dy| gives modulation
TieIsModulation ==
    (HasHistory /\ MovedFast /\ Abs(MovedX) = Abs(MovedY)) => ModulationOnly

\* round(n / d), d > 0: the nearest integer, a half going to the even neighbour
Round(n, d) ==
    LET lo == IF n >= 0 THEN n \div d ELSE -(((-n) + d - 1) \div d)
        twice == 2 * (n - lo * d)
    IN CASE twice < d -> lo
         [] twice > d -> lo + 1
         [] OTHER -> IF lo % 2 = 0 THEN lo ELSE lo + 1

\* thread t is past the controls of its frame
PastControls(t) == trk[t].pc \in {"log", "returned"}

\* the frame's events hold a ControlChange of controller c with value v
HasControlChange(t, c, v) ==
    \E i \in DOMAIN trk[t].midi_events :
       /\ trk[t].midi_events[i].type = "control_change"
       /\ trk[t].midi_events[i].control = c
       /\ trk[t].midi_events[i].value = v

HasPitchWheel(t, v) ==
    \E i \in DOMAIN trk[t].midi_events :
       /\ trk[t].midi_events[i].type = "pitchwheel"
       /\ trk[t].midi_events[i].pitch = v

\* C32: control encoding. A pitch_bend in [-1, 1] is emitted as the PitchWheel
\* value round(pitch_bend * 8192 + 8192) clamped to 0..16383, a modulation as
\* the ControlChange(1) value round(|modulation| * 127) clamped to 0..127, and a
\* volume as the ControlChange(7) value round(volume * 127) clamped to 0..127.
C32_ControlEncoding ==
    \A t \in DOMAIN trk :
       PastControls(t) =>
          LET c == trk[t].gestures.controls
          IN /\ ( /\ "pitch_bend" \in DOMAIN c
                  /\ RLeq(Q(-1, 1), c.pitch_bend) /\ RLeq(c.pitch_bend, Q(1, 1)) )
                  => HasPitchWheel(t, Clamp(0, 16383,
                         Round(c.pitch_bend.num * 8192 + 8192 * c.pitch_bend.den,
                               c.pitch_bend.den)))
             /\ "modulation" \in DOMAIN c
                  => HasControlChange(t, 1, Clamp(0, 127,
                         Round(Abs(c.modulation.num) * 127, c.modulation.den)))
             /\ "volume" \in DOMAIN c
                  => HasControlChange(t, 7, Clamp(0, 127,
                         Round(c.volume.num * 127, c.volume.den)))

\* the values emitted are the products cut towards zero, then clamped
EncodingTruncates ==
    \A t \in DOMAIN trk :
       PastControls(t) =>
          LET c == trk[t].gestures.controls
          IN /\ "pitch_bend" \in DOMAIN c
                  => HasPitchWheel(t, Clamp(0, 16383,
                         IntTrunc(c.pitch_bend.num * 8192 + 8192 * c.pitch_bend.den,
                                  c.pitch_bend.den)))
             /\ "modulation" \in DOMAIN c
                  => HasControlChange(t, 1, Clamp(0, 127,
                         IntTrunc(Abs(c.modulation.num) * 127, c.modulation.den)))
             /\ "volume" \in DOMAIN c
                  => HasControlChange(t, 7, Clamp(0, 127,
                         IntTrunc(c.volume.num * 127, c.volume.den)))

\* |a - b| <= 1/8192 for rationals with positive denominators
WithinBendStep(a, b) ==
    Abs(a.num * b.den - b.num * a.den) * 8192 <= a.den * b.den

\* C33: pitch-bend round trip. For every pitch_bend v in [-1, 1] of a frame, the
\* PitchWheel value emitted for it, decoded as (value - 8192) / 8192, is within
\* 1/8192 of v, the end points v = -1 and v = 1 included.
C33_BendRoundTrip ==
    \A t \in DOMAIN trk :
       ( /\ PastControls(t)
         /\ "pitch_bend" \in DOMAIN trk[t].gestures.controls
         /\ RLeq(Q(-1, 1), trk[t].gestures.controls.pitch_bend)
         /\ RLeq(trk[t].gestures.controls.pitch_bend, Q(1, 1)) )
       => \E i \in DOMAIN trk[t].midi_events :
             /\ trk[t].midi_events[i].type = "pitchwheel"
             /\ WithinBendStep(PitchBendFraction(trk[t].midi_events[i].pitch),
                               trk[t].gestures.controls.pitch_bend)

\* a frame with pitch_bend = 1 has emitted the PitchWheel value 16383, which
\* decodes to 8191/8192
C33_Witness ==
    \E t \in DOMAIN trk :
       /\ PastControls(t)
       /\ "pitch_bend" \in DOMAIN trk[t].gestures.controls
       /\ trk[t].gestures.controls.pitch_bend = Q(1, 1)
       /\ HasPitchWheel(t, 16383)
       /\ PitchBendFraction(16383) = Q(8191, 8192)

\* the round trip without the tolerance: the decoded value equals v. It fails
\* for v = 1, decoded as 8191/8192, and for v = -1/3 and v = 5/7
BendRoundTripExact ==
    \A t \in DOMAIN trk :
       ( /\ PastControls(t)
         /\ "pitch_bend" \in DOMAIN trk[t].gestures.controls
         /\ RLeq(Q(-1, 1), trk[t].gestures.controls.pitch_bend)
         /\ RLeq(trk[t].gestures.controls.pitch_bend, Q(1, 1)) )
       => \E i \in DOMAIN trk[t].midi_events :
             /\ trk[t].midi_events[i].type = "pitchwheel"
             /\ LET d == PitchBendFraction(trk[t].midi_events[i].pitch)
                    v == trk[t].gestures.controls.pitch_bend
                IN d.num * v.den = v.num * d.den

(***************************************************************************)
(* Claims about the envelope                                               *)
(***************************************************************************)
\* the time n/d seconds, or with u = 1 the float above it
EnvelopeTime(n, d, u) == [num |-> n, den |-> d, ulp |-> u]

\* the envelope at time t of a note of the engine's duration
EnvelopeAt(t) == CalculateEnvelope(t, note_duration).value

\* the value returned is num/den
Returned(n, d) ==
    /\ envelope_call.value.num * d = n * envelope_call.value.den

\* the envelope does not fall (rises = TRUE) or does not rise (rises = FALSE)
\* over the times up to t that are in the same phase as t
MonotonicUpTo(t, rises) ==
    \A u \in EnvelopeTimes :
       ( /\ CalculateEnvelope(u, note_duration).phase
               = CalculateEnvelope(t, note_duration).phase
         /\ RLeq(u, t) )
       => IF rises THEN RLeq(EnvelopeAt(u), EnvelopeAt(t))
          ELSE RLeq(EnvelopeAt(t), EnvelopeAt(u))

\* C34: envelope boundary values. For the duration the engine synthesizes with,
\* the envelope is 0 at t = 0, 1.0 at t = attack, sustainLevel = 0.7 at
\* t = attack + decay and 0.0 at t = duration, and it is monotonic within each
\* of the phases attack, decay, sustain and release.
C34_EnvelopeBoundaries ==
    envelope_call.returned =>
       LET t == envelope_call.t
       IN /\ t = EnvelopeTime(0, 200, 0) => Returned(0, 1)
          /\ t = EnvelopeTime(20, 200, 0) => Returned(1, 1)
          /\ t = EnvelopeTime(3, 10, 1) => Returned(7, 10)
          /\ t = EnvelopeTime(100, 200, 0) => Returned(0, 1)
          /\ MonotonicUpTo(t, envelope_call.phase = "attack")

\* the boundary values at 0, attack and duration, and the monotonic phases
EnvelopeOtherBoundaries ==
    envelope_call.returned =>
       LET t == envelope_call.t
       IN /\ t = EnvelopeTime(0, 200, 0) => Returned(0, 1)
          /\ t = EnvelopeTime(20, 200, 0) => Returned(1, 1)
          /\ t = EnvelopeTime(100, 200, 0) => Returned(0, 1)
          /\ MonotonicUpTo(t, envelope_call.phase = "attack")

\* at attack_time + decay_time the release has begun: the value is 7/15, and no
\* call returns from the sustain phase; at the float 0.3 the decay ends with 0.7
ReleaseCutsSustain ==
    envelope_call.returned =>
       /\ envelope_call.phase # "sustain"
       /\ envelope_call.t = EnvelopeTime(3, 10, 1)
             => (Returned(7, 15) /\ envelope_call.phase = "release")
       /\ envelope_call.t = EnvelopeTime(60, 200, 0)
             => (Returned(7, 10) /\ envelope_call.phase = "decay")
       /\ envelope_call.t = EnvelopeTime(62, 200, 0)
             => (Returned(133, 300) /\ envelope_call.phase = "release")

(***************************************************************************)
(* Claims about the timing and the errors of the MIDI track                *)
(***************************************************************************)
\* a step appends a message to the track
Appends == Len(track') = Len(track) + 1

\* C35: log timing. Every message appended to the track has a delta time of at
\* least 0 ticks, computed at 480 ticks per second from the time since
\* last_event_time, and last_event_time changes only when a message is appended,
\* to the time of that append.
C35_LogTiming ==
    [][ /\ Appends =>
             /\ last_delta' >= 0
             /\ clock >= last_event_time
                   => /\ last_delta' * 1000 <= (clock - last_event_time) * 480
                      /\ (clock - last_event_time) * 480 < (last_delta' + 1) * 1000
             /\ clock < last_event_time => last_delta' = 0
             /\ last_event_time' = clock
        /\ ~Appends => (last_event_time' = last_event_time /\ track' = track)
      ]_vars

\* a message was appended 25 ms after the one before it, with 12 ticks
C35_Witness ==
    /\ Len(track) > Len(InitialTrack) + 1
    /\ last_delta = 12
    /\ last_event_time = 25

\* a message was appended at a reading of the clock that lies before
\* last_event_time, with 0 ticks
ClockSetBack ==
    [][ (Appends /\ clock < last_event_time) => last_delta' = 0 ]_vars

\* the encoding of event e fails: a pitchwheel whose pitch is outside the range
\* of a mido message
Refused(e) == e.type = "pitchwheel" /\ e.pitch \notin -8192..8191

Encoded(e) == ~Refused(e)

\* thread t takes the step of the log loop for its event number i
LogsEvent(t) == trk[t].pc = "log" /\ trk'[t] # trk[t]

\* C36: encoder error handling. When the encoding of an event for the track
\* fails, the event is skipped: the track and last_event_time are unchanged,
\* nothing is raised (the loop goes on to the next event of the frame, or
\* process_gestures returns the whole list), and the other events of the frame
\* are appended in their order.
C36_EncoderErrors ==
    /\ [][ \A t \in DOMAIN trk :
              (LogsEvent(t) /\ Refused(trk[t].midi_events[trk[t].i])) =>
                 /\ track' = track
                 /\ last_event_time' = last_event_time
                 /\ trk'[t].midi_events = trk[t].midi_events
                 /\ IF trk[t].i < Len(trk[t].midi_events)
                    THEN trk'[t].pc = "log" /\ trk'[t].i = trk[t].i + 1
                    ELSE trk'[t].pc = "returned" ]_vars
    /\ [](\A t \in DOMAIN trk :
             trk[t].pc = "returned" =>
                LET evs == SelectSeq(trk[t].midi_events, Encoded) IN
                TrackTail(Len(evs)) = [i \in 1..Len(evs) |-> ToMessage(evs[i])])

\* a frame has returned whose first control event was refused and whose later
\* events are on the track, the last of them appended at a later time
C36_Witness ==
    \E t \in DOMAIN trk :
       /\ trk[t].pc = "returned"
       /\ \E i \in DOMAIN trk[t].midi_events :
             /\ Refused(trk[t].midi_events[i])
             /\ i < Len(trk[t].midi_events)
       /\ track[Len(track)] = ToMessage(trk[t].midi_events[Len(trk[t].midi_events)])
       /\ Len(track) = Len(InitialTrack) + Len(SelectSeq(trk[t].midi_events, Encoded))
       /\ last_event_time > 0

(***************************************************************************)
(* Claims about the events the synthesizer does not play                   *)
(***************************************************************************)
\* an event of unknown type, or a NoteOn without a pitch or with a pitch
\* outside 0..127
Unplayable(e) ==
    \/ e.type \notin {"note_on", "note_off", "control_change", "pitchwheel"}
    \/ /\ e.type = "note_on"
       /\ ("note" \notin DOMAIN e \/ e.note \notin 0..127)

\* consumer c dispatches the event it took from the queue
Dispatches(c) == con[c].pc = "process" /\ con'[c] # con[c]

\* C37: the synthesizer drops what it cannot play. An event of unknown type, or
\* a NoteOn whose pitch is missing or outside 0..127, is dropped by the consumer
\* without an error: active_sounds and the master volume are unchanged, and the
\* consumer goes back to its loop for the next event.
C37_DropsUnplayable ==
    [][ \A c \in Consumers :
           (Dispatches(c) /\ Unplayable(con[c].event)) =>
              /\ active_sounds' = active_sounds
              /\ sounding' = sounding
              /\ volume' = volume
              /\ last_raised' = last_raised
              /\ con'[c] = IdleConsumer("check") ]_vars

\* a consumer holds a NoteOn of pitch 128 while pitch 60 is registered, and one
\* event was dispatched before
C37_Witness ==
    \E c \in Consumers :
       /\ con[c].pc = "process"
       /\ con[c].event.type = "note_on"
       /\ "note" \in DOMAIN con[c].event
       /\ con[c].event.note = 128
       /\ 60 \in DOMAIN active_sounds
       /\ last_handled = 1

\* a pitch wheel event, or a ControlChange of the modulation or the sustain controller
LeavesVolume(e) ==
    \/ e.type = "pitchwheel"
    \/ e.type = "control_change" /\ e.control \in {1, 64}

IsVolumeChange(e) == e.type = "control_change" /\ e.control = 7

\* C38: control events leave voices alone. The dispatch of a PitchWheel event, a
\* modulation ControlChange(1) or a sustain ControlChange(64) leaves
\* active_sounds and the master volume unchanged; a volume ControlChange(7)
\* changes only the master volume, to value/127; a NoteOn dispatched afterwards
\* makes its Sound with the master volume of that moment, and the Sounds
\* already in active_sounds keep theirs.
C38_ControlsLeaveVoices ==
    [][ \A c \in Consumers :
           Dispatches(c) =>
              /\ LeavesVolume(con[c].event) =>
                    /\ active_sounds' = active_sounds
                    /\ sounding' = sounding
                    /\ volume' = volume
              /\ IsVolumeChange(con[c].event) =>
                    /\ active_sounds' = active_sounds
                    /\ sounding' = sounding
                    /\ volume'.num * 127 = con[c].event.value * volume'.den
              /\ con'[c].pc = "play" =>
                    /\ con'[c].sound.volume = volume
                    /\ volume' = volume ]_vars

\* pitch 60 was registered at the initial master volume 1/2, a ControlChange(7)
\* with value 63 was dispatched after it, and the Sound kept its volume
C38_Witness ==
    /\ 60 \in DOMAIN active_sounds
    /\ active_sounds[60].volume = Q(1, 2)
    /\ volume = Q(63, 127)
    /\ last_handled = 2

\* a ControlChange(7) with value 63 was dispatched, and the NoteOn dispatched
\* after it was registered with the volume 63/127
VolumeReachesNoteOn ==
    /\ 60 \in DOMAIN active_sounds
    /\ active_sounds[60].volume = Q(63, 127)
    /\ volume = Q(63, 127)
    /\ last_handled = 2

\* a consumer holds a sustain ControlChange while pitch 60 is registered
SustainInHand ==
    \E c \in Consumers :
       /\ con[c].pc = "process"
       /\ con[c].event.type = "control_change"
       /\ con[c].event.control = 64
       /\ 60 \in DOMAIN active_sounds

====
